---- MODULE Spec2Model ----
(***************************************************************************)
(* A model of the cocos-requet HTTP client (src/src/client.ts with the     *)
(* helpers of src/src/helper.ts): the two interceptor chains, the folds    *)
(* Client.request builds over them, and the transport adapter              *)
(* Client._request that turns the XMLHttpRequest callbacks into one        *)
(* promise.                                                                *)
(*                                                                         *)
(* Strings are sequences of one-character strings, so that the helpers     *)
(* that scan URLs are computed as the code computes them.                  *)
(***************************************************************************)
EXTENDS Integers, Sequences, FiniteSets, TLC

\* ------------------------------------------------------------------ bounds
\* Slots of the two chains together (the built-in response stage included).
MaxSlots == 3

\* The calls of Client.request the model follows: one at a time, the next
\* one starting when the promise of the last one has settled.
Requests == {1}
Chains == {"request", "response"}

\* ----------------------------------------------------------------- strings
Lower == {"a","b","c","d","e","f","g","h","i","j","k","l","m",
          "n","o","p","q","r","s","t","u","v","w","x","y","z"}
Upper == {"A","B","C","D","E","F","G","H","I","J","K","L","M",
          "N","O","P","Q","R","S","T","U","V","W","X","Y","Z"}
Digit == {"0","1","2","3","4","5","6","7","8","9"}

\* s.slice(i) with a 1-based i
Drop(s, i) == SubSeq(s, i, Len(s))

StartsWith(s, p) == Len(s) >= Len(p) /\ SubSeq(s, 1, Len(p)) = p

\* Length of the longest prefix of s made of characters of set C.
RECURSIVE Run(_, _)
Run(s, C) == IF s # <<>> /\ Head(s) \in C THEN 1 + Run(Tail(s), C) ELSE 0

\* isAbsoluteURL without the flag i: /^([a-z][a-z\d+\-.]*:)?\/\//
isAbsoluteURLCaseSensitive(url) ==
    LET n == Run(url, Lower \cup Digit \cup {"+", "-", "."})
    IN  \/ StartsWith(url, <<"/", "/">>)
        \/ /\ n >= 1
           /\ Head(url) \in Lower
           /\ StartsWith(Drop(url, n + 1), <<":", "/", "/">>)

\* /^([a-z][a-z\d+\-.]*:)?\/\//i
isAbsoluteURL(url) ==
    LET n == Run(url, Lower \cup Upper \cup Digit \cup {"+", "-", "."})
    IN  \/ StartsWith(url, <<"/", "/">>)
        \/ /\ n >= 1
           /\ Head(url) \in Lower \cup Upper
           /\ StartsWith(Drop(url, n + 1), <<":", "/", "/">>)

\* s.replace(/\/+$/, '')
RECURSIVE StripTrailingSlashes(_)
StripTrailingSlashes(s) ==
    IF s # <<>> /\ s[Len(s)] = "/"
    THEN StripTrailingSlashes(SubSeq(s, 1, Len(s) - 1))
    ELSE s

\* s.replace(/^\/+/, '')
StripLeadingSlashes(s) == Drop(s, Run(s, {"/"}) + 1)

\* combineURLs that keeps the leading slashes of the relative URL.
combineURLsKeepingSlashes(baseURL, relativeURL) ==
    IF relativeURL # <<>>
    THEN StripTrailingSlashes(baseURL) \o <<"/">> \o relativeURL
    ELSE baseURL

combineURLs(baseURL, relativeURL) ==
    IF relativeURL # <<>>
    THEN StripTrailingSlashes(baseURL) \o <<"/">> \o StripLeadingSlashes(relativeURL)
    ELSE baseURL

\* buildFullPath without the test for an absolute requested URL.
buildFullPathAlwaysCombined(baseURL, requestedURL) ==
    IF baseURL # <<>> THEN combineURLs(baseURL, requestedURL) ELSE requestedURL

buildFullPath(baseURL, requestedURL) ==
    IF baseURL # <<>> /\ ~isAbsoluteURL(requestedURL)
    THEN combineURLs(baseURL, requestedURL)
    ELSE requestedURL

\* The {1,25} of the regular expression of parseProtocol.
MaxProtocolLen == 25

\* /^([-+\w]{1,25})(:?\/\/|:)/ : the class holds neither ':' nor '/', so the
\* only prefix the alternatives can follow is the longest run of the class.
parseProtocol(url) ==
    LET n    == Run(url, Lower \cup Upper \cup Digit \cup {"_", "-", "+"})
        rest == Drop(url, n + 1)
    IN  IF /\ n >= 1
           /\ n <= MaxProtocolLen
           /\ \/ StartsWith(rest, <<":">>)
              \/ StartsWith(rest, <<"/", "/">>)
        THEN SubSeq(url, 1, n)
        ELSE <<>>

SupportedProtocols ==
    { <<"h","t","t","p">>, <<"h","t","t","p","s">>,
      <<"f","i","l","e">>, <<"b","l","o","b">> }

\* ------------------------------------------------------------------ inputs
\* The urls a caller passes and the baseURL a Client is constructed with.
URLs == { <<"/","r">>,
          <<"f","t","p",":","/","/","x","/","y">>,
          <<"f","i","l","e",":","/","/","/","f">> }
BaseURLs == { <<>>, <<"h","t","t","p",":","/","/","h">> }
ResponseTypes == {"unset", "json"}

\* ------------------------------------------------------------------ values
\* What flows through a fold: a RequestConfig, a ReqeustResponse, undefined
\* or an Error.  "by" is the position of the stage that last returned the
\* object (0: the pipeline itself), so that a stage's input can be compared
\* with the output of the stage before it.
Undef == [t |-> "undefined"]
Config(baseURL, url, responseType, by) ==
    [t |-> "config", baseURL |-> baseURL, url |-> url,
     responseType |-> responseType, by |-> by]
Response(status, data, responseType, by) ==
    [t |-> "response", status |-> status, data |-> data,
     responseType |-> responseType, by |-> by]
Error(message, by) == [t |-> "error", message |-> message, by |-> by]

\* A promise: pending, fulfilled with v or rejected with v.
Pending == [st |-> "pending", v |-> Undef]
Ful(v) == [st |-> "ful", v |-> v]
Rej(v) == [st |-> "rej", v |-> v]
Settled(p) == p.st # "pending"

\* A promise whose resolve and reject would overwrite an earlier outcome.
SettleAgain(promise, outcome) == outcome

\* resolve(x) / reject(x) of a promise: only the first call counts.
Settle(promise, outcome) == IF Settled(promise) THEN promise ELSE outcome

\* ------------------------------------------------------------- the chains
\* A slot of InterceptorManager.handlers: "null" (ejected, or a hole left by
\* an assignment past the end), "user" (use(onFulfilled): onRejected is the
\* default () => {}), "userRej" (use(onFulfilled, onRejected)), and the two
\* built-in stages.
Null == "null"
BeforeSend == "beforeSend"
ParseJSON == "parseJSON"

\* A stage of a fold: the .then(fulfilled, rejected) attached to promise
\* number "parent" of the fold (0: the promise the fold starts from).
Then(pos, slot, parent) ==
    [pos |-> pos, slot |-> slot, parent |-> parent, st |-> "wait",
     mode |-> "-", arg |-> Undef, out |-> Pending]

EmptyFold == [nodes |-> <<>>, last |-> 0]

\* The callback of handlers.reduce in berforeRequest: an empty slot returns
\* the promise folded so far, any other slot chains a .then on it.
RequestReducer(fold, handler, i) ==
    IF handler = Null
    THEN fold
    ELSE [nodes |-> Append(fold.nodes, Then(i, handler, fold.last)),
          last  |-> Len(fold.nodes) + 1]

\* The reducer of the older afterRequest (src/unnamed/part_000): an empty
\* slot returns the promise the fold started from.
ResponseReducerFromStart(fold, handler, i) ==
    IF handler = Null
    THEN [nodes |-> fold.nodes, last |-> 0]
    ELSE [nodes |-> Append(fold.nodes, Then(i, handler, fold.last)),
          last  |-> Len(fold.nodes) + 1]

\* The callback of handlers.reduce in afterRequest.
ResponseReducer(fold, handler, i) ==
    IF handler = Null
    THEN fold
    ELSE [nodes |-> Append(fold.nodes, Then(i, handler, fold.last)),
          last  |-> Len(fold.nodes) + 1]

\* Array.prototype.reduce over the slots from i on.
RECURSIVE Reduce(_, _, _, _)
Reduce(chain, hs, i, fold) ==
    IF i > Len(hs) THEN fold
    ELSE Reduce(chain, hs, i + 1,
                IF chain = "request"
                THEN RequestReducer(fold, hs[i], i)
                ELSE ResponseReducer(fold, hs[i], i))

\* The stage list with beforeSendRquestInterceptor put first.
RequestStagesBuiltInFirst(hs) == <<BeforeSend>> \o hs

\* [...this.interceptors.request.handlers, beforeSendRquestInterceptor]
RequestStages(hs) == Append(hs, BeforeSend)

berforeRequest(hs) == Reduce("request", RequestStages(hs), 1, EmptyFold)

afterRequest(hs) == Reduce("response", hs, 1, EmptyFold)

\* afterRequest of the draft of Client.request in src/unnamed/part_000: the
\* callback of reduce returns, for an empty slot, the promise afterRequest
\* was given, not the promise folded so far.
afterRequestDraft(hs) ==
    LET folded[i \in 0..Len(hs)] ==
            IF i = 0 THEN EmptyFold
            ELSE IF hs[i] = Null
                 THEN [nodes |-> folded[i - 1].nodes, last |-> 0]
                 ELSE [nodes |-> Append(folded[i - 1].nodes,
                                        Then(i, hs[i], folded[i - 1].last)),
                       last  |-> Len(folded[i - 1].nodes) + 1]
    IN  folded[Len(hs)]

\* A .then pair that takes the fulfilled callback whatever the outcome.
CallbackFulfilledOnly(promise) == "F"

\* promise.then(v => handler.fulfilled(v), e => handler.rejected(e)): which
\* of the two callbacks a settled promise calls.
Callback(promise) == IF promise.st = "ful" THEN "F" ELSE "R"

\* --------------------------------------------------------- what a stage does
TypeError == Error("TypeError", 0)

\* A handler that returns the object it was given, rewritten or not.
Returned(arg, pos) == IF arg = Undef THEN Undef ELSE [arg EXCEPT !.by = pos]

\* beforeSendRquestInterceptor: fulfilled reads config.headers, defaults the
\* headers, transforms the data and returns the config; rejected is () => {}.
beforeSendRquestInterceptor(mode, arg, pos) ==
    IF mode = "F"
    THEN IF arg.t = "config" THEN Ful(Returned(arg, pos)) ELSE Rej(TypeError)
    ELSE Ful(Undef)

\* JSON.parse of a body: "json" stands for valid JSON text, every other
\* non-empty body throws a SyntaxError.
JSONParse(data, pos) ==
    IF data = "json" THEN Ful("parsed") ELSE Rej(Error("SyntaxError", pos))

\* The response stage the constructor installs: parses the body of a json
\* response, rethrows an error.
parseResponseInterceptor(mode, arg, pos) ==
    IF mode = "F"
    THEN IF arg.t # "response" THEN Rej(TypeError)
         ELSE IF arg.responseType = "json" /\ arg.data # ""
              THEN IF JSONParse(arg.data, pos).st = "ful"
                   THEN Ful([arg EXCEPT !.data = JSONParse(arg.data, pos).v,
                                        !.by = pos])
                   ELSE JSONParse(arg.data, pos)
              ELSE Ful(Returned(arg, pos))
    ELSE Rej(arg)

\* The object a caller's onRejected returns when it recovers.
Fallback(chain, url, pos) ==
    IF chain = "request"
    THEN Config(<<>>, url, "unset", pos)
    ELSE Response(200, "fallback", "unset", pos)

\* The outcomes a caller's interceptor can have.  onFulfilled returns its
\* argument or throws; a supplied onRejected returns a replacement or
\* rethrows; the default onRejected, () => {}, returns undefined.
UserOutcomes(chain, slot, mode, arg, pos, url) ==
    IF mode = "F"
    THEN {Ful(Returned(arg, pos)), Rej(Error("thrown", pos))}
    ELSE IF slot = "userRej"
         THEN {Ful(Fallback(chain, url, pos)), Rej(arg)}
         ELSE {Ful(Undef)}

\* The two .then pairs createRequestClient registers on the response chain.
\* A responseHandler stage returns what responseHandler returns, or throws
\* with it; its onRejected is error => Promise.reject(error).  The last
\* stage returns the response as it is; its onRejected calls errorHandler
\* and rejects with what errorHandler returned, or with what it threw.
ClientOutcomes(slot, mode, arg, pos) ==
    IF slot = "responseHandler"
    THEN IF mode = "F"
         THEN {Ful(Returned(arg, pos)), Rej(Error("thrown", pos))}
         ELSE {Rej(arg)}
    ELSE IF mode = "F"
         THEN {Ful(arg)}
         ELSE {Rej(arg), Rej(Error("handled", pos))}

BuiltIn(slot) == slot \in {BeforeSend, ParseJSON}

BuiltInOutcome(slot, mode, arg, pos) ==
    IF slot = BeforeSend
    THEN beforeSendRquestInterceptor(mode, arg, pos)
    ELSE parseResponseInterceptor(mode, arg, pos)

\* ----------------------------------------------------------------- headers
\* A headers object is a function from the names it holds to their values.
HeaderNames == {"Accept", "Content-Type", "content-type", "X-Id"}

\* key.toLowerCase()
ToLowerCase(name) ==
    CASE name = "Accept" -> "accept"
      [] name = "Content-Type" -> "content-type"
      [] name = "X-Id" -> "x-id"
      [] OTHER -> name

\* headers[name] = value
Put(headers, name, value) ==
    [k \in DOMAIN headers \cup {name} |-> IF k = name THEN value ELSE headers[k]]

\* delete headers[name]
Delete(headers, name) == [k \in DOMAIN headers \ {name} |-> headers[k]]

\* {...a, ...b}
Spread(a, b) ==
    [k \in DOMAIN a \cup DOMAIN b |-> IF k \in DOMAIN b THEN b[k] ELSE a[k]]

NoHeaders == [k \in {} |-> ""]

\* defaultOptions.headers of the class: { Accept: 'application/json, text/plain, */*' }
DefaultHeaders == Put(NoHeaders, "Accept", "application/json, text/plain, */*")

\* normalizeHeaderName(headers, normalizedName): a key that differs from the
\* canonical name only by case is renamed to it, keeping its value.
normalizeHeaderName(headers, normalizedName) ==
    LET others == {k \in DOMAIN headers :
                      /\ k # normalizedName
                      /\ ToLowerCase(k) = ToLowerCase(normalizedName)}
    IN  IF others = {} THEN headers
        ELSE LET k == CHOOSE x \in others : TRUE
             IN  Put(Delete(headers, k), normalizedName, headers[k])

\* setContentTypeIfUnset(headers, value)
setContentTypeIfUnset(headers, value) ==
    IF "Content-Type" \in DOMAIN headers THEN headers
    ELSE Put(headers, "Content-Type", value)

\* ------------------------------------------------------------------ payload
\* The values of config.data: undefined, a plain object, a FormData, a string.
NoData == [k |-> "undefined"]
EmptyObject == [k |-> "object", json |-> "{}"]
NamedObject == [k |-> "object", json |-> "{\"name\":\"a\"}"]
FormData == [k |-> "formdata"]
String(text) == [k |-> "string", text |-> text]

\* isObject(val): val !== null && typeof val === 'object'
isObject(data) ==
    data.k \in {"object", "formdata", "arraybuffer", "buffer", "stream", "file",
                "blob", "arraybufferview", "urlsearchparams"}

\* isFormData(data) and the other pass-through shapes of transformRequest:
\* isArrayBuffer, isBuffer, isStream, isFile, isBlob.
isFormData(data) ==
    data.k \in {"formdata", "arraybuffer", "buffer", "stream", "file", "blob"}

\* A typed array or a DataView: a view of a buffer.
isArrayBufferView(data) == data.k = "arraybufferview"

isURLSearchParams(data) == data.k = "urlsearchparams"

\* trim(str): str.trim()
RECURSIVE trim(_)
trim(str) ==
    IF str = "" THEN ""
    ELSE IF SubSeq(str, 1, 1) = " " THEN trim(SubSeq(str, 2, Len(str)))
    ELSE IF SubSeq(str, Len(str), Len(str)) = " " THEN trim(SubSeq(str, 1, Len(str) - 1))
    ELSE str

\* The texts JSON.parse accepts, of the texts of the model: the two objects,
\* a number, and a string in quotes with neither a quote nor a backslash
\* inside, each with or without white space around it.
ParsesAsJSON(text) ==
    LET t == trim(text)
    IN  \/ t \in {"{}", "{\"name\":\"a\"}", "1"}
        \/ /\ Len(t) >= 2
           /\ SubSeq(t, 1, 1) = "\"" /\ SubSeq(t, Len(t), Len(t)) = "\""
           /\ \A i \in 2..(Len(t) - 1) : SubSeq(t, i, i) \notin {"\"", "\\"}

\* JSON.stringify(rawValue): the text of an object, a string in quotes.
JSONStringify(rawValue) ==
    IF rawValue.k = "object" THEN String(rawValue.json)
    ELSE String("\"" \o rawValue.text \o "\"")

\* stringifySafely without the trial parse of a string.
stringifyAlways(rawValue) == JSONStringify(rawValue)

\* stringifySafely(rawValue): a string that parses is returned trimmed.
stringifySafely(rawValue) ==
    IF rawValue.k = "string" /\ ParsesAsJSON(rawValue.text)
    THEN String(trim(rawValue.text))
    ELSE JSONStringify(rawValue)

\* transformRequest without the serialization of the payload.
transformRequestRaw(data, headers) ==
    [data |-> data,
     headers |-> setContentTypeIfUnset(
                     normalizeHeaderName(normalizeHeaderName(headers, "Accept"),
                                         "Content-Type"),
                     "application/json")]

\* transformRequest with the test for an object or a declared JSON content
\* type made first.
transformRequestJSONFirst(data, headers) ==
    LET normalized == normalizeHeaderName(normalizeHeaderName(headers, "Accept"),
                                          "Content-Type")
    IN  IF data.k # "undefined" /\ data # String("")
           /\ (isObject(data) \/ ("Content-Type" \in DOMAIN normalized
                                   /\ normalized["Content-Type"] = "application/json"))
        THEN [data |-> IF data.k = "string" THEN stringifySafely(data)
                       ELSE String("{}"),
              headers |-> setContentTypeIfUnset(normalized, "application/json")]
        ELSE [data |-> data, headers |-> normalized]

\* transformRequest(data, headers): the body to send and the headers object
\* as the call leaves it.  !data holds for undefined and for the empty string.
transformRequest(data, headers) ==
    LET normalized == normalizeHeaderName(normalizeHeaderName(headers, "Accept"),
                                          "Content-Type")
        contentType == IF "Content-Type" \in DOMAIN normalized
                       THEN normalized["Content-Type"] ELSE ""
        declaresJSON == \E i \in 1..(Len(contentType) - 15) :
                            SubSeq(contentType, i, i + 15) = "application/json"
    IN  IF data.k = "undefined" \/ data = String("") \/ isFormData(data)
        THEN [data |-> data, headers |-> normalized]
        ELSE IF isArrayBufferView(data)
        THEN [data |-> data.buffer, headers |-> normalized]
        ELSE IF isURLSearchParams(data)
        THEN [data |-> String(data.text),
              headers |-> setContentTypeIfUnset(
                              normalized,
                              "application/x-www-form-urlencoded;charset=utf-8")]
        ELSE IF isObject(data) \/ declaresJSON
        THEN [data |-> stringifySafely(data),
              headers |-> setContentTypeIfUnset(normalized, "application/json")]
        ELSE [data |-> data, headers |-> normalized]

\* beforeSendRquestInterceptor.fulfilled(config) on a config whose headers
\* object holds headers: the data and the headers it leaves.
beforeSendFulfilled(config, headers) ==
    LET defaulted == IF config.responseType = "json"
                     THEN Put(Put(headers, "Accept", "application/json"),
                              "Content-Type", "application/json")
                     ELSE headers
    IN  transformRequest(IF config.data = NoData THEN EmptyObject ELSE config.data,
                         defaulted)

\* ------------------------------------------------------------------- state
VARIABLES
    defaultOptions,  \* Client.defaultOptions: baseURL and responseType
    handlers,        \* interceptors.request.handlers, interceptors.response.handlers
    issued,          \* per chain, the handles use has returned, in call order
    foreign,         \* per chain, whether eject was given an index past the end
    req,             \* per request, the state of its call to Client.request
    call,            \* the last application of a helper: its arguments and result
    wire             \* per call, the config on its way from a shortcut to the transport

vars == <<defaultOptions, handlers, issued, foreign, req, call, wire>>

\* The XMLHttpRequest of a request.  hasLoadEnd is 'onloadend' in xhr.
\* phase: 0 before completion, 1 once readyState 4 is announced, 2 once the
\* error/timeout/abort event is dispatched, 3 once loadend is dispatched.
NewXhr ==
    [hasLoadEnd |-> FALSE, opens |-> 0, sends |-> 0, readyState |-> 0,
     status |-> 0, responseText |-> "", event |-> "none", phase |-> 0]

\* acted is history: the outcomes the transport callbacks have called
\* resolve or reject with, in the order of the calls.
IdleRequest ==
    [pc |-> "idle", url |-> <<>>, config |-> Undef,
     fold |-> [c \in Chains |-> EmptyFold],
     seen |-> [c \in Chains |-> <<>>],
     thrown |-> Pending, cell |-> Pending, xhr |-> NewXhr, timers |-> <<>>,
     acted |-> <<>>]

\* new Client(options): two empty chains, the built-in response stage
\* registered with use, and no call of request yet.
Constructed ==
    /\ handlers = [c \in Chains |-> IF c = "response" THEN <<ParseJSON>> ELSE <<>>]
    /\ issued = [c \in Chains |-> IF c = "response" THEN <<0>> ELSE <<>>]
    /\ foreign = [c \in Chains |-> FALSE]
    /\ req = [r \in Requests |-> IdleRequest]

\* No helper applied and no config on its way.
NoCall == [fn |-> "none"]
NoWire == <<>>
Quiet == call = NoCall /\ wire = NoWire

\* Object.assign(this.defaultOptions, options), for every options.
Init ==
    /\ defaultOptions \in [baseURL : BaseURLs, responseType : ResponseTypes,
                           headers : {DefaultHeaders}]
    /\ Constructed
    /\ Quiet

TotalSlots(hs) == Len(hs["request"]) + Len(hs["response"])

\* ------------------------------------------------------ InterceptorManager
\* handlers.push({fulfilled, rejected})
Pushed(hs, slot) == Append(hs, slot)

\* An eject that removes the slot: handlers.splice(id, 1).
EjectedSplice(hs, id) ==
    [i \in 1..(IF id + 1 <= Len(hs) THEN Len(hs) - 1 ELSE Len(hs)) |->
        IF i < id + 1 THEN hs[i] ELSE hs[i + 1]]

\* handlers[id] = null, id counted from 0: an index past the end grows the
\* array, and the slots in between are holes the folds skip like null.
Ejected(hs, id) ==
    [i \in 1..(IF id + 1 > Len(hs) THEN id + 1 ELSE Len(hs)) |->
        IF i = id + 1 \/ i > Len(hs) THEN Null ELSE hs[i]]

\* A use that also chains the new handler on the promise of a call whose
\* response fold is already built.
UseLive(c, withRejected) ==
    /\ TotalSlots(handlers) < MaxSlots
    /\ handlers' = [handlers EXCEPT
                       ![c] = Pushed(@, IF withRejected THEN "userRej" ELSE "user")]
    /\ issued' = [issued EXCEPT ![c] = Append(@, Len(handlers'[c]) - 1)]
    /\ req' = [r \in Requests |->
                  IF c = "response" /\ req[r].pc = "after"
                  THEN [req[r] EXCEPT !.fold[c] =
                           ResponseReducer(@, handlers'[c][Len(handlers'[c])],
                                           Len(handlers'[c]))]
                  ELSE req[r]]
    /\ UNCHANGED <<defaultOptions, foreign, call, wire>>

\* use(onFulfilled, onRejected?): returns handlers.length - 1.
Use(c, withRejected) ==
    /\ TotalSlots(handlers) < MaxSlots
    /\ handlers' = [handlers EXCEPT
                       ![c] = Pushed(@, IF withRejected THEN "userRej" ELSE "user")]
    /\ issued' = [issued EXCEPT ![c] = Append(@, Len(handlers'[c]) - 1)]
    /\ UNCHANGED <<defaultOptions, foreign, req, call, wire>>

\* eject(id)
Eject(c, id) ==
    /\ TotalSlots([handlers EXCEPT ![c] = Ejected(@, id)]) <= MaxSlots
    /\ handlers' = [handlers EXCEPT ![c] = Ejected(@, id)]
    /\ foreign' = [foreign EXCEPT ![c] = @ \/ id + 1 > Len(handlers[c])]
    /\ UNCHANGED <<defaultOptions, issued, req, call, wire>>

\* ------------------------------------------------------------ Client.request
\* The promise a fold starts from, and the promise of its stage number i.
Initial(r, c) == IF c = "request" THEN Ful(req[r].config) ELSE req[r].cell

OutcomeOf(r, c, i) ==
    IF i = 0 THEN Initial(r, c) ELSE req[r].fold[c].nodes[i].out

\* The promise a whole fold returns.
Folded(r, c) == OutcomeOf(r, c, req[r].fold[c].last)

\* The promise request() returned.
Result(r) ==
    IF req[r].pc = "done" THEN req[r].thrown
    ELSE IF req[r].pc = "after" THEN Folded(r, "response")
    ELSE Pending

\* Object.assign({}, this.defaultOptions, reqeustConfig, {headers})
Merged(options, url) == Config(options.baseURL, url, options.responseType, 0)

\* request(config): the config is merged with the defaults and
\* berforeRequest chains every stage at once, before anything else runs.
Request(r, url) ==
    /\ req[r].pc = "idle" \/ Settled(Result(r))
    /\ req' = [req EXCEPT ![r] =
                  [IdleRequest EXCEPT
                      !.pc = "before",
                      !.url = url,
                      !.config = Merged(defaultOptions, url),
                      !.fold["request"] = berforeRequest(handlers["request"]),
                      !.seen["request"] = handlers["request"]]]
    /\ UNCHANGED <<defaultOptions, handlers, issued, foreign, call, wire>>

\* A .then callback runs once the promise it is attached to has settled:
\* fulfilled(value) or rejected(error).  A built-in stage returns at once;
\* a caller's stage may return a promise that settles later.
StageStart(r, c, n) ==
    LET node   == req[r].fold[c].nodes[n]
        parent == OutcomeOf(r, c, node.parent)
        mode   == Callback(parent)
    IN  /\ req[r].pc # "idle"
        /\ node.st = "wait"
        /\ Settled(parent)
        /\ req' = [req EXCEPT ![r].fold[c].nodes[n] =
                      IF BuiltIn(node.slot)
                      THEN [@ EXCEPT !.st = "done", !.mode = mode, !.arg = parent.v,
                                     !.out = BuiltInOutcome(node.slot, mode,
                                                            parent.v, node.pos)]
                      ELSE [@ EXCEPT !.st = "run", !.mode = mode, !.arg = parent.v]]
        /\ UNCHANGED <<defaultOptions, handlers, issued, foreign, call, wire>>

StageSettle(r, c, n) ==
    LET node == req[r].fold[c].nodes[n]
    IN  /\ node.st = "run"
        /\ \E o \in (IF node.slot \in {"responseHandler", "errorHandler"}
                     THEN ClientOutcomes(node.slot, node.mode, node.arg, node.pos)
                     ELSE UserOutcomes(c, node.slot, node.mode, node.arg,
                                       node.pos, req[r].url)) :
              req' = [req EXCEPT ![r].fold[c].nodes[n] =
                         [@ EXCEPT !.st = "done", !.out = o]]
        /\ UNCHANGED <<defaultOptions, handlers, issued, foreign, call, wire>>

\* ----------------------------------------------------------- Client._request
\* The config the request fold produced: what _request is called with.
MergeConfig(r) == Folded(r, "request").v

\* buildFullPath(baseURL || '', url)
FullPath(config) == buildFullPath(config.baseURL, config.url)

\* protocol && ['http', 'https', 'file', 'blob'].indexOf(protocol) === -1
Unsupported(fullPath) ==
    /\ parseProtocol(fullPath) # <<>>
    /\ parseProtocol(fullPath) \notin SupportedProtocols

\* _request up to the end of the promise executor.  Destructuring undefined
\* throws, an unsupported protocol rejects before xhr.open; otherwise the
\* transport is opened, the callbacks are installed and send is called.
Adapter(mergeConfig, hasLoadEnd) ==
    IF mergeConfig.t # "config"
    THEN [cell |-> Rej(TypeError), xhr |-> NewXhr]
    ELSE IF Unsupported(FullPath(mergeConfig))
         THEN [cell |-> Rej(Error("Unsupported protocol", 0)), xhr |-> NewXhr]
         ELSE [cell |-> Pending,
               xhr  |-> [NewXhr EXCEPT !.hasLoadEnd = hasLoadEnd, !.opens = 1,
                                       !.sends = 1, !.readyState = 1]]

\* const mergeConfig = await berforeRequest(...);
\* return afterRequest(this._request(mergeConfig));
\* A rejected request fold makes the await throw; otherwise _request runs
\* and afterRequest chains every response stage on its promise at once.
Invoke(r, hasLoadEnd) ==
    /\ req[r].pc = "before"
    /\ Settled(Folded(r, "request"))
    /\ req' = [req EXCEPT ![r] =
          IF Folded(r, "request").st = "rej"
          THEN [@ EXCEPT !.pc = "done", !.thrown = Folded(r, "request")]
          ELSE [@ EXCEPT !.pc = "after",
                         !.cell = Adapter(MergeConfig(r), hasLoadEnd).cell,
                         !.xhr = Adapter(MergeConfig(r), hasLoadEnd).xhr,
                         !.fold["response"] = afterRequest(handlers["response"]),
                         !.seen["response"] = handlers["response"]]]
    /\ UNCHANGED <<defaultOptions, handlers, issued, foreign, call, wire>>

\* xhr.responseURL.indexOf('file:') === 0
IsFileURL(url) == StartsWith(url, <<"f","i","l","e",":">>)

\* onloadend: the Response assembled from the transport, and resolve.
onloadend(r) ==
    Ful(Response(req[r].xhr.status, req[r].xhr.responseText,
                 MergeConfig(r).responseType, 0))

\* handleLoad without the test of the status.
handleLoadAnyStatus(xhr, responseURL) == xhr.readyState = 4

\* handleLoad without the exception for the file: urls.
handleLoadUnlessStatus0(xhr, responseURL) ==
    xhr.readyState = 4 /\ xhr.status # 0

\* handleLoad, the onreadystatechange callback: TRUE when it schedules
\* onloadend with setTimeout.
handleLoad(xhr, responseURL) ==
    /\ xhr.readyState = 4
    /\ ~(xhr.status = 0 /\ ~IsFileURL(responseURL))

\* The error a setTimeout callback of onerror, ontimeout, onabort rejects with.
Failure(event) ==
    IF event = "error" THEN Error("Network request failed", 0)
    ELSE IF event = "timeout" THEN Error("Network request timeout", 0)
    ELSE Error("Network request aborted", 0)

\* What a setTimeout callback of the adapter does to the promise.
TimerOutcome(r, timer) ==
    IF timer = "onloadend" THEN onloadend(r) ELSE Rej(Failure(timer))

RunTimer(r, timer) == Settle(req[r].cell, TimerOutcome(r, timer))

\* ------------------------------------------------------------ the transport
Failures == {"error", "timeout", "abort"}
Bodies == {"", "json", "bad"}

\* What a finished transfer can report: a failure has status 0 and no body;
\* a load from a file: URL has status 0, any other load 200 or 404.
Completions(responseURL) ==
    [event : Failures, status : {0}, body : {""}]
    \cup [event : {"load"},
          status : IF IsFileURL(responseURL) THEN {0} ELSE {200, 404},
          body : Bodies]

\* readyState 2 and 3: readystatechange is dispatched and handleLoad runs.
XhrProgress(r) ==
    /\ req[r].xhr.sends = 1
    /\ req[r].xhr.phase = 0
    /\ req[r].xhr.readyState < 3
    /\ LET xhr == [req[r].xhr EXCEPT !.readyState = @ + 1]
       IN  req' = [req EXCEPT
                     ![r].xhr = xhr,
                     ![r].timers =
                         IF /\ ~xhr.hasLoadEnd
                            /\ handleLoad(xhr, FullPath(MergeConfig(r)))
                         THEN Append(@, "onloadend") ELSE @]
    /\ UNCHANGED <<defaultOptions, handlers, issued, foreign, call, wire>>

\* The transfer ends: readyState 4, readystatechange is dispatched.
XhrComplete(r) ==
    /\ req[r].xhr.sends = 1
    /\ req[r].xhr.phase = 0
    /\ \E done \in Completions(FullPath(MergeConfig(r))) :
          LET xhr == [req[r].xhr EXCEPT !.readyState = 4, !.status = done.status,
                                        !.responseText = done.body,
                                        !.event = done.event, !.phase = 1]
          IN  req' = [req EXCEPT
                        ![r].xhr = xhr,
                        ![r].timers =
                            IF /\ ~xhr.hasLoadEnd
                               /\ handleLoad(xhr, FullPath(MergeConfig(r)))
                            THEN Append(@, "onloadend") ELSE @]
    /\ UNCHANGED <<defaultOptions, handlers, issued, foreign, call, wire>>

\* An onerror, ontimeout, onabort that opens and sends the request again.
XhrEventRetry(r) ==
    /\ req[r].xhr.phase = 1
    /\ req[r].xhr.event \in Failures
    /\ req' = [req EXCEPT ![r].xhr.phase = 0,
                          ![r].xhr.opens = @ + 1,
                          ![r].xhr.sends = @ + 1]
    /\ UNCHANGED <<defaultOptions, handlers, issued, foreign, call, wire>>

\* error, timeout or abort is dispatched: onerror, ontimeout or onabort
\* schedules the rejection with setTimeout.
XhrEvent(r) ==
    /\ req[r].xhr.phase = 1
    /\ req[r].xhr.event \in Failures
    /\ req' = [req EXCEPT ![r].xhr.phase = 2,
                          ![r].timers = Append(@, req[r].xhr.event)]
    /\ UNCHANGED <<defaultOptions, handlers, issued, foreign, call, wire>>

\* loadend is dispatched, after load and after error, timeout or abort
\* alike: onloadend runs when the platform has the property.
XhrLoadEnd(r) ==
    /\ req[r].xhr.hasLoadEnd
    /\ req[r].xhr.phase = (IF req[r].xhr.event = "load" THEN 1 ELSE 2)
    /\ req' = [req EXCEPT ![r].xhr.phase = 3,
                          ![r].cell = Settle(@, onloadend(r)),
                          ![r].acted = Append(@, onloadend(r))]
    /\ UNCHANGED <<defaultOptions, handlers, issued, foreign, call, wire>>

\* The scheduler runs the oldest setTimeout callback of the request.
TimerFire(r) ==
    /\ req[r].timers # <<>>
    /\ req' = [req EXCEPT ![r].timers = Tail(@),
                          ![r].cell = RunTimer(r, Head(req[r].timers)),
                          ![r].acted = Append(@, TimerOutcome(r, Head(req[r].timers)))]
    /\ UNCHANGED <<defaultOptions, handlers, issued, foreign, call, wire>>

\* ---------------------------------------------------------- specifications
\* The steps of a call that has started, for the urls of set U.
Pipeline(U) ==
    \/ \E r \in Requests, url \in U : Request(r, url)
    \/ \E r \in Requests, c \in Chains :
          \E n \in 1..Len(req[r].fold[c].nodes) : StageStart(r, c, n)
    \/ \E r \in Requests, c \in Chains :
          \E n \in 1..Len(req[r].fold[c].nodes) : StageSettle(r, c, n)
    \/ \E r \in Requests, hasLoadEnd \in BOOLEAN : Invoke(r, hasLoadEnd)
    \/ \E r \in Requests : XhrProgress(r)
    \/ \E r \in Requests : XhrComplete(r)
    \/ \E r \in Requests : XhrEvent(r)
    \/ \E r \in Requests : XhrLoadEnd(r)
    \/ \E r \in Requests : TimerFire(r)

\* Spec: a Client of any options whose interceptors are registered and
\* ejected before the first call, and calls with every url.
Setup == \A r \in Requests : req[r].pc = "idle"

Next ==
    \/ Setup /\ \E c \in Chains, withRejected \in BOOLEAN : Use(c, withRejected)
    \/ Setup /\ \E c \in Chains : \E id \in 0..(Len(handlers[c]) - 1) : Eject(c, id)
    \/ Pipeline(URLs)

Spec == Init /\ [][Next]_vars

\* SpecLive: Spec where the steps of a call that has started are taken as
\* long as one can be: the job queue and the timers of the platform run, a
\* pending stage of the caller settles, and the transport ends the transfer.
SpecLive ==
    Spec /\ WF_vars(\E r \in Requests :
                       \/ \E c \in Chains :
                             \E n \in 1..Len(req[r].fold[c].nodes) :
                                 StageStart(r, c, n) \/ StageSettle(r, c, n)
                       \/ \E hasLoadEnd \in BOOLEAN : Invoke(r, hasLoadEnd)
                       \/ XhrProgress(r) \/ XhrComplete(r) \/ XhrEvent(r)
                       \/ XhrLoadEnd(r) \/ TimerFire(r))

\* SpecChain: one Client, calls with one url, and use and eject at any
\* moment of a call.
InitChain ==
    /\ defaultOptions = [baseURL |-> <<"h","t","t","p",":","/","/","h">>,
                         responseType |-> "json", headers |-> DefaultHeaders]
    /\ Constructed
    /\ Quiet

NextChain ==
    \/ \E c \in Chains, withRejected \in BOOLEAN : Use(c, withRejected)
    \/ \E c \in Chains : \E id \in 0..(Len(handlers[c]) - 1) : Eject(c, id)
    \/ Pipeline({<<"/","r">>})

SpecChain == InitChain /\ [][NextChain]_vars

\* SpecHandles: use and eject alone, eject with any index.
NextHandles ==
    \/ \E c \in Chains, withRejected \in BOOLEAN : Use(c, withRejected)
    \/ \E c \in Chains, id \in 0..(MaxSlots - 1) : Eject(c, id)

SpecHandles == InitChain /\ [][NextHandles]_vars

\* -------------------------------------------- verb shortcuts to the transport
Verbs == {"get", "delete", "head", "options", "post", "put", "patch"}

\* The method each shortcut passes to _paramsRequest or _dataRequest.
ShortcutMethod(verb) ==
    CASE verb = "head" -> "HEAD"
      [] verb = "options" -> "HEAD"
      [] verb = "get" -> "GET"
      [] verb = "delete" -> "DELETE"
      [] verb = "post" -> "POST"
      [] verb = "put" -> "PUT"
      [] verb = "patch" -> "PATCH"

\* The shortcuts that call _dataRequest.
UsesData(verb) == verb \in {"post", "put", "patch"}

\* method.toUpperCase()
ToUpperCase(method) ==
    CASE method = "get" -> "GET"
      [] method = "delete" -> "DELETE"
      [] method = "head" -> "HEAD"
      [] method = "options" -> "OPTIONS"
      [] method = "post" -> "POST"
      [] method = "put" -> "PUT"
      [] method = "patch" -> "PATCH"
      [] OTHER -> method

\* The options argument of a shortcut: none, or an object with headers.
NoOptions == [hasHeaders |-> FALSE, headers |-> NoHeaders]
WithHeaders(headers) == [hasHeaders |-> TRUE, headers |-> headers]

\* _paramsRequest: this.request({...(options || {}), method, url, params})
paramsRequest(method, url, params, options) ==
    [method |-> method, url |-> url, params |-> params, data |-> NoData,
     hasHeaders |-> options.hasHeaders, headers |-> options.headers]

\* _dataRequest: this.request({...(options || {}), method, url, data})
dataRequest(method, url, data, options) ==
    [method |-> method, url |-> url, params |-> NoData, data |-> data,
     hasHeaders |-> options.hasHeaders, headers |-> options.headers]

\* The config a shortcut passes to request.
Shortcut(verb, url, payload, options) ==
    IF UsesData(verb)
    THEN dataRequest(ShortcutMethod(verb), url, payload, options)
    ELSE paramsRequest(ShortcutMethod(verb), url, payload, options)

\* Object.assign({}, this.defaultOptions, reqeustConfig, {headers}): the
\* fields of the new object other than headers.
MergedConfig(options, passed) ==
    [baseURL |-> options.baseURL, responseType |-> options.responseType,
     method |-> passed.method, url |-> passed.url, params |-> passed.params,
     data |-> passed.data]

\* A merge without the headers argument: the new object holds the headers
\* object of the caller, or that of the defaults.
MergedHeadersShared(options, passed) ==
    [at |-> IF passed.hasHeaders THEN "caller" ELSE "defaults", own |-> NoHeaders]

\* headers: {...(this.defaultOptions.headers || {}), ...(reqeustConfig.headers || {})}:
\* a new headers object, owned by the new config.
MergedHeaders(options, passed) ==
    [at |-> "own", own |-> Spread(options.headers, passed.headers)]

\* url.indexOf('?') === -1
HasQuery(url) == \E i \in 1..Len(url) : url[i] = "?"

\* encode(val): encodeURIComponent escapes every character but letters,
\* digits and - _ . ! ~ * ' ( ), always as %XX with upper-case digits, and
\* the replaces turn %3A %24 %2C %5B %5D back into : $ , [ ] and %20 into +.
\* An escape in the output stands for one character of the input ('%' itself
\* becomes %25), so the replaces act character by character.
RECURSIVE encode(_)
encode(val) ==
    LET c == Head(val)
        escaped == CASE c = " " -> <<"%","2","0">>
                     [] c = ":" -> <<"%","3","A">>
                     [] c = "$" -> <<"%","2","4">>
                     [] c = "," -> <<"%","2","C">>
                     [] c = "[" -> <<"%","5","B">>
                     [] c = "]" -> <<"%","5","D">>
                     [] c = "&" -> <<"%","2","6">>
                     [] c = "=" -> <<"%","3","D">>
                     [] c = "?" -> <<"%","3","F">>
                     [] c = "/" -> <<"%","2","F">>
                     [] c = "%" -> <<"%","2","5">>
                     [] OTHER -> <<c>>
        replaced == CASE escaped = <<"%","3","A">> -> <<":">>
                      [] escaped = <<"%","2","4">> -> <<"$">>
                      [] escaped = <<"%","2","C">> -> <<",">>
                      [] escaped = <<"%","2","0">> -> <<"+">>
                      [] escaped = <<"%","5","B">> -> <<"[">>
                      [] escaped = <<"%","5","D">> -> <<"]">>
                      [] OTHER -> escaped
    IN  IF val = <<>> THEN <<>> ELSE replaced \o encode(Tail(val))

\* parts with the null and undefined values kept, as the text 'null'.
RECURSIVE PartsWithNull(_)
PartsWithNull(entries) ==
    LET key   == Head(entries).key
        value == Head(entries).value
        part(k, v) == encode(k) \o <<"=">> \o encode(v)
    IN  IF entries = <<>> THEN <<>>
        ELSE (IF value.t \in {"null", "undefined"}
              THEN <<part(key, <<"n","u","l","l">>)>>
              ELSE IF value.t = "array"
              THEN [i \in 1..Len(value.items) |-> part(key \o <<"[","]">>, value.items[i])]
              ELSE <<part(key, value.s)>>)
             \o PartsWithNull(Tail(entries))

\* The parts buildURL pushes for the entries of params, in their order.
RECURSIVE Parts(_)
Parts(entries) ==
    LET key   == Head(entries).key
        value == Head(entries).value
        part(k, v) == encode(k) \o <<"=">> \o encode(v)
    IN  IF entries = <<>> THEN <<>>
        ELSE (IF value.t \in {"null", "undefined"} THEN <<>>
              ELSE IF value.t = "array"
              THEN [i \in 1..Len(value.items) |-> part(key \o <<"[","]">>, value.items[i])]
              ELSE <<part(key, value.s)>>)
             \o Parts(Tail(entries))

\* parts.join(separator)
RECURSIVE Join(_, _)
Join(parts, separator) ==
    IF parts = <<>> THEN <<>>
    ELSE IF Len(parts) = 1 THEN parts[1]
    ELSE parts[1] \o separator \o Join(Tail(parts), separator)

\* parts.join('&') of buildURL: of the object {name: 'a'} and of params
\* given by their entries.
QueryOf(params) ==
    IF params = NamedObject THEN <<"n","a","m","e","=","a">>
    ELSE IF params.k = "entries" THEN Join(Parts(params.entries), <<"&">>)
    ELSE <<>>

\* buildURL(url, params)
buildURL(url, params) ==
    IF params = NoData THEN url
    ELSE url \o (IF HasQuery(url) THEN <<"&">> ELSE <<"?">>) \o QueryOf(params)

NoTransport ==
    [opens |-> 0, sends |-> 0, method |-> "-", url |-> <<>>, headers |-> {},
     body |-> NoData]

\* _request on a config whose headers object holds headers: the arguments
\* of xhr.open, the setRequestHeader calls and the argument of xhr.send.
Transport(config, headers) ==
    IF Unsupported(buildFullPath(config.baseURL, config.url))
    THEN NoTransport
    ELSE [opens |-> 1, sends |-> 1,
          method |-> ToUpperCase(config.method),
          url |-> buildURL(buildFullPath(config.baseURL, config.url), config.params),
          headers |-> {<<k, headers[k]>> : k \in
                         {x \in DOMAIN headers :
                             ~(config.data = NoData /\ ToLowerCase(x) = "content-type")}},
          body |-> config.data]

\* A call of a shortcut.  verb, url, payload and options are its arguments,
\* passed the config it gives request, config the merged config, at the
\* object config.headers refers to ("own", "defaults" or "caller"), own the
\* headers object made by the merge, callerHeaders the headers object of the
\* options of the caller.
IdleWire ==
    [pc |-> "idle", verb |-> "-", url |-> <<>>, payload |-> NoData,
     options |-> NoOptions, passed |-> Undef, config |-> Undef, at |-> "own",
     own |-> NoHeaders, callerHeaders |-> NoHeaders, touched |-> FALSE,
     xhr |-> NoTransport]

\* config.headers of the call, read through the reference.
HeadersOf(c) ==
    CASE wire[c].at = "own" -> wire[c].own
      [] wire[c].at = "defaults" -> defaultOptions.headers
      [] wire[c].at = "caller" -> wire[c].callerHeaders

\* A write to the object config.headers refers to, with w the calls as the
\* step leaves them otherwise.
WriteHeaders(c, headers, w) ==
    /\ defaultOptions' = IF wire[c].at = "defaults"
                         THEN [defaultOptions EXCEPT !.headers = headers]
                         ELSE defaultOptions
    /\ wire' = [w EXCEPT
                   ![c].own = IF wire[c].at = "own" THEN headers ELSE @,
                   ![c].callerHeaders = IF wire[c].at = "caller" THEN headers ELSE @]

\* get(url, params, options) ... patch(url, data, options), up to the first
\* await of request: the config is built, merged and handed to the fold.
CallShortcut(c, verb, url, payload, options) ==
    LET passed == Shortcut(verb, url, payload, options)
    IN  /\ wire[c].pc = "idle"
        /\ wire' = [wire EXCEPT ![c] =
                       [IdleWire EXCEPT
                           !.pc = "merged", !.verb = verb, !.url = url,
                           !.payload = payload, !.options = options,
                           !.passed = passed,
                           !.config = MergedConfig(defaultOptions, passed),
                           !.at = MergedHeaders(defaultOptions, passed).at,
                           !.own = MergedHeaders(defaultOptions, passed).own,
                           !.callerHeaders = options.headers]]
        /\ UNCHANGED <<defaultOptions, handlers, issued, foreign, req, call>>

\* A request interceptor of the caller that changes the config it is given:
\* it sets a header, or the url, and returns the config.
Intercept(c, what) ==
    /\ wire[c].pc = "merged"
    /\ ~wire[c].touched
    /\ IF what = "header"
       THEN WriteHeaders(c, Put(HeadersOf(c), "X-Id", "m"),
                         [wire EXCEPT ![c].touched = TRUE])
       ELSE /\ wire' = [wire EXCEPT ![c].touched = TRUE,
                                    ![c].config.url = <<"/","m">>]
            /\ UNCHANGED defaultOptions
    /\ UNCHANGED <<handlers, issued, foreign, req, call>>

\* The last stage of the request fold: beforeSendRquestInterceptor.fulfilled.
BeforeSendStage(c) ==
    LET sent == beforeSendFulfilled(wire[c].config, HeadersOf(c))
    IN  /\ wire[c].pc = "merged"
        /\ WriteHeaders(c, sent.headers,
                        [wire EXCEPT ![c].pc = "ready", ![c].config.data = sent.data])
        /\ UNCHANGED <<handlers, issued, foreign, req, call>>

\* _request(mergeConfig) up to xhr.send.
SendStage(c) ==
    /\ wire[c].pc = "ready"
    /\ wire' = [wire EXCEPT ![c].pc = "sent",
                            ![c].xhr = Transport(wire[c].config, HeadersOf(c))]
    /\ UNCHANGED <<defaultOptions, handlers, issued, foreign, req, call>>

\* SpecSend: one call of every shortcut with every payload and options, on
\* Clients of every baseURL, responseType and default headers.
Payloads == {NoData, NamedObject, FormData}
OptionsOfCaller ==
    {NoOptions, WithHeaders(Put(NoHeaders, "X-Id", "v")),
     WithHeaders(Put(NoHeaders, "Content-Type", "text/plain")),
     WithHeaders(Put(NoHeaders, "content-type", "text/plain"))}

InitSend ==
    /\ defaultOptions \in
          [baseURL : BaseURLs, responseType : ResponseTypes,
           headers : {DefaultHeaders, Put(DefaultHeaders, "Content-Type", "text/plain")}]
    /\ Constructed
    /\ call = NoCall
    /\ wire = [c \in {1} |-> IdleWire]

NextSend ==
    \/ \E c \in DOMAIN wire, verb \in Verbs, payload \in Payloads,
          options \in OptionsOfCaller :
          CallShortcut(c, verb, <<"/","r">>, payload, options)
    \/ \E c \in DOMAIN wire : BeforeSendStage(c)
    \/ \E c \in DOMAIN wire : SendStage(c)

SpecSend == InitSend /\ [][NextSend]_vars

\* SpecShare: two calls, one after the other or at the same time, with an
\* interceptor that changes the config or its headers.
InitShare ==
    /\ defaultOptions \in
          [baseURL : {<<"h","t","t","p",":","/","/","h">>},
           responseType : ResponseTypes, headers : {DefaultHeaders}]
    /\ Constructed
    /\ call = NoCall
    /\ wire = [c \in {1, 2} |-> IdleWire]

NextShare ==
    \/ \E c \in DOMAIN wire, verb \in {"get", "post"},
          payload \in {NoData, NamedObject},
          options \in {NoOptions, WithHeaders(Put(NoHeaders, "X-Id", "v"))} :
          CallShortcut(c, verb, <<"/","r">>, payload, options)
    \/ \E c \in DOMAIN wire, what \in {"header", "url"} : Intercept(c, what)
    \/ \E c \in DOMAIN wire : BeforeSendStage(c)
    \/ \E c \in DOMAIN wire : SendStage(c)

SpecShare == InitShare /\ [][NextShare]_vars

\* The old variables of a Client that is constructed and makes no request.
Still ==
    /\ defaultOptions = [baseURL |-> <<"h","t","t","p",":","/","/","h">>,
                         responseType |-> "json", headers |-> DefaultHeaders]
    /\ Constructed

\* SpecUrl: buildFullPath applied to every base and url of two small sets,
\* buildURL to two urls and the params of a small set, parseHeaders to the
\* header texts of a small set, transformRequest to the payloads and
\* headers of two small sets, and the two afterRequest to every handlers
\* array of up to MaxSlots slots.
Schemes == { <<"h","t","t","p">>, <<"H","T","T","P">>, <<"f","t","p">>,
             <<"a","+","b">>, <<"x","-","y",".","z">>, <<"h","2">> }
Rests == { <<>>, <<"h">>, <<"h","/","p">>, <<"/","f">> }

\* scheme://rest and //rest
AbsoluteURLs ==
    {s \o <<":","/","/">> \o t : s \in Schemes, t \in Rests}
        \cup {<<"/","/">> \o t : t \in Rests}

RelativeURLs ==
    { <<>>, <<"r">>, <<"/","r">>, <<"a",":","b">>, <<":","/","/","h">>,
      <<"h","t","t","p",":","/","x">>, <<"1","x",":","/","/","h">> }

Bases == { <<>>, <<"h","t","t","p",":","/","/","h">>,
           <<"h","t","t","p",":","/","/","h","/">>, <<"/","a","p","i">> }

\* ------------------------------------------------------------ parseHeaders
ignoreDuplicateOf ==
    { <<"a","g","e">>,
      <<"a","u","t","h","o","r","i","z","a","t","i","o","n">>,
      <<"c","o","n","t","e","n","t","-","l","e","n","g","t","h">>,
      <<"c","o","n","t","e","n","t","-","t","y","p","e">>,
      <<"e","t","a","g">>,
      <<"e","x","p","i","r","e","s">>,
      <<"f","r","o","m">>,
      <<"h","o","s","t">>,
      <<"i","f","-","m","o","d","i","f","i","e","d","-","s","i","n","c","e">>,
      <<"i","f","-","u","n","m","o","d","i","f","i","e","d","-","s","i","n","c","e">>,
      <<"l","a","s","t","-","m","o","d","i","f","i","e","d">>,
      <<"l","o","c","a","t","i","o","n">>,
      <<"m","a","x","-","f","o","r","w","a","r","d","s">>,
      <<"p","r","o","x","y","-","a","u","t","h","o","r","i","z","a","t","i","o","n">>,
      <<"r","e","f","e","r","e","r">>,
      <<"r","e","t","r","y","-","a","f","t","e","r">>,
      <<"u","s","e","r","-","a","g","e","n","t">> }

\* headers.split('\n') and, of each line, the key
\* trim(line.slice(0, i)).toLowerCase() and the value trim(line.slice(i + 1))
\* for i = line.indexOf(':'), which is -1 for a line without a colon.
RECURSIVE HeaderLines(_)
HeaderLines(headers) ==
    LET first(S) == CHOOSE i \in S : \A j \in S : i <= j
        last(S)  == CHOOSE i \in S : \A j \in S : j <= i
        breaks == {i \in 1..Len(headers) : headers[i] = "\n"}
        line == IF breaks = {} THEN headers ELSE SubSeq(headers, 1, first(breaks) - 1)
        colons == {i \in 1..Len(line) : line[i] = ":"}
        trimmed(str) ==
            LET kept == {i \in 1..Len(str) : str[i] \notin {" ", "\t", "\r", "\n"}}
            IN  IF kept = {} THEN <<>> ELSE SubSeq(str, first(kept), last(kept))
        upper == <<"A","B","C","D","E","F","G","H","I","J","K","L","M","N","O","P","Q","R","S","T","U","V","W","X","Y","Z">>
        lower == <<"a","b","c","d","e","f","g","h","i","j","k","l","m","n","o","p","q","r","s","t","u","v","w","x","y","z">>
        toLowerCase(str) ==
            [i \in 1..Len(str) |->
                IF \E n \in 1..26 : upper[n] = str[i]
                THEN lower[CHOOSE n \in 1..26 : upper[n] = str[i]]
                ELSE str[i]]
        key == toLowerCase(trimmed(IF colons = {} THEN SubSeq(line, 1, Len(line) - 1)
                                ELSE SubSeq(line, 1, first(colons) - 1)))
        val == trimmed(IF colons = {} THEN line ELSE Drop(line, first(colons) + 1))
    IN  <<[key |-> key, val |-> val]>>
            \o (IF breaks = {} THEN <<>> ELSE HeaderLines(Drop(headers, first(breaks) + 1)))

\* parseHeaders(headers): parsed after the forEach.  A value is a string or,
\* for set-cookie, a list; a string is truthy when it is not empty and a
\* list always.
parseHeaders(headers) ==
    LET lines == HeaderLines(headers)
        has(parsed, key) ==
            key \in DOMAIN parsed /\ parsed[key] # [t |-> "string", s |-> <<>>]
        step(parsed, key, val) ==
            IF key = <<>> THEN parsed
            ELSE IF has(parsed, key) /\ key \in ignoreDuplicateOf THEN parsed
            ELSE IF key = <<"s","e","t","-","c","o","o","k","i","e">>
            THEN Put(parsed, key,
                     [t |-> "list",
                      items |-> IF has(parsed, key)
                                THEN Append(parsed[key].items, val) ELSE <<val>>])
            ELSE Put(parsed, key,
                     [t |-> "string",
                      s |-> IF has(parsed, key)
                            THEN parsed[key].s \o <<",", " ">> \o val ELSE val])
        after[n \in 0..Len(lines)] ==
            IF n = 0 THEN NoHeaders
            ELSE step(after[n - 1], lines[n].key, lines[n].val)
    IN  IF headers = <<>> THEN NoHeaders ELSE after[Len(lines)]

\* The header texts of a response: one or two lines, or two Set-Cookie lines
\* around a Content-Length line, each line followed by '\r\n' as
\* getAllResponseHeaders gives them.
RawHeaders ==
    LET Lines == { <<"S","e","t","-","C","o","o","k","i","e",":"," ","a">>,
      <<"s","e","t","-","c","o","o","k","i","e",":","b">>,
      <<"C","o","n","t","e","n","t","-","L","e","n","g","t","h",":"," ","5">>,
      <<"c","o","n","t","e","n","t","-","l","e","n","g","t","h",":"," ","7">>,
      <<"X","-","A",":"," ","p">>,
      <<"x","-","a",":"," ","q">>,
      <<"X","-","A",":">>,
      <<"C","o","n","t","e","n","t","-","L","e","n","g","t","h",":"," ">> }
        raw(ls) == Join([i \in 1..Len(ls) |-> ls[i] \o <<"\r", "\n">>], <<>>)
    IN  {raw(ls) : ls \in UNION {[1..n -> Lines] : n \in 1..2}}
            \cup {raw(<<<<"S","e","t","-","C","o","o","k","i","e",":"," ","a">>,
                         <<"C","o","n","t","e","n","t","-","L","e","n","g","t","h",":"," ","5">>,
                         <<"s","e","t","-","c","o","o","k","i","e",":","b">>>>)}

ApplyParseHeaders(headers) ==
    /\ call' = [fn |-> "parseHeaders", args |-> <<headers>>,
                out |-> parseHeaders(headers)]
    /\ UNCHANGED <<defaultOptions, handlers, issued, foreign, req, wire>>

\* The params buildURL is applied to, each an object given by its entries.
\* A value is null, undefined, a string or number (its text), or an array.
QueryParams ==
    LET a == <<"a">>  b == <<"b">>  c == <<"c">>
        NullValue == [t |-> "null"]
        Text(x) == [t |-> "text", s |-> x]
        Array(items) == [t |-> "array", items |-> items]
        e(k, v) == [key |-> k, value |-> v]
        list == Array(<<<<"1">>, <<"2">>>>)
    IN  {[k |-> "entries", entries |-> es] : es \in
            { <<>>,
              <<e(a, list), e(b, NullValue), e(c, Text(<<"x">>))>>,
              <<e(c, Text(<<"x">>)), e(a, list)>>,
              <<e(b, NullValue)>>,
              <<e(b, [t |-> "undefined"]), e(c, Text(<<"x">>))>>,
              <<e(a, Array(<<>>)), e(c, Text(<<"x"," ","y">>))>>,
              <<e(c, Text(<<"x","&","y","=","1">>))>>,
              <<e(a, Text(<<"1">>)), e(b, Text(<<"2">>)), e(c, Text(<<"3">>))>> }}

ApplyBuildURL(url, params) ==
    /\ call' = [fn |-> "buildURL", args |-> <<url, params>>,
                out |-> buildURL(url, params)]
    /\ UNCHANGED <<defaultOptions, handlers, issued, foreign, req, wire>>

\* transformRequest(data, headers), and transformRequest again on the body
\* it returned and the headers it left.
ApplyTransformRequest(data, headers) ==
    /\ call' = [fn |-> "transformRequest", args |-> <<data, headers>>,
                out |-> transformRequest(data, headers),
                again |-> transformRequest(transformRequest(data, headers).data,
                                           transformRequest(data, headers).headers)]
    /\ UNCHANGED <<defaultOptions, handlers, issued, foreign, req, wire>>

\* The response folds of client.ts and of the draft, built over the same
\* handlers.
ApplyAfterRequest(hs) ==
    /\ call' = [fn |-> "afterRequest", args |-> <<hs>>,
                out |-> afterRequest(hs), draft |-> afterRequestDraft(hs)]
    /\ UNCHANGED <<defaultOptions, handlers, issued, foreign, req, wire>>

ApplyBuildFullPath(baseURL, requestedURL) ==
    /\ call' = [fn |-> "buildFullPath", args |-> <<baseURL, requestedURL>>,
                out |-> buildFullPath(baseURL, requestedURL)]
    /\ UNCHANGED <<defaultOptions, handlers, issued, foreign, req, wire>>

InitUrl == Still /\ Quiet

NextUrl ==
    \/ \E baseURL \in Bases, requestedURL \in AbsoluteURLs \cup RelativeURLs :
           ApplyBuildFullPath(baseURL, requestedURL)
    \/ \E url \in {<<"/","x">>, <<"/","x","?","y","=","1">>},
          params \in QueryParams \cup {NoData} :
           ApplyBuildURL(url, params)
    \/ \E headers \in RawHeaders : ApplyParseHeaders(headers)
    \/ \E data \in
              { NoData, String(""), EmptyObject, NamedObject, FormData,
                [k |-> "arraybuffer"], [k |-> "buffer"], [k |-> "stream"],
                [k |-> "file"], [k |-> "blob"],
                [k |-> "arraybufferview", buffer |-> [k |-> "arraybuffer"]],
                [k |-> "urlsearchparams", text |-> "a=1"],
                String("{\"name\":\"a\"}"), String(" {} "), String("\"x\""),
                String("hello") },
          headers \in
              { NoHeaders, DefaultHeaders,
                Put(NoHeaders, "Content-Type", "application/json"),
                Put(NoHeaders, "content-type", "application/json"),
                Put(DefaultHeaders, "Content-Type", "application/json;charset=utf-8"),
                Put(NoHeaders, "Content-Type", "text/plain") } :
           ApplyTransformRequest(data, headers)
    \/ \E hs \in UNION {[1..n -> {ParseJSON, "user", "userRej", Null}] : n \in 1..MaxSlots} :
           ApplyAfterRequest(hs)

SpecUrl == InitUrl /\ [][NextUrl]_vars

\* ------------------------------------------------------------------ attachAPI
\* MATCH_METHOD: the methods, and the lower-case method of each.
MethodNames ==
    { <<"G","E","T">>, <<"P","O","S","T">>, <<"P","U","T">>,
      <<"D","E","L","E","T","E">>, <<"H","E","A","D">>,
      <<"O","P","T","I","O","N","S">>, <<"C","O","N","N","E","C","T">>,
      <<"T","R","A","C","E">>, <<"P","A","T","C","H">> }

\* method.toLowerCase() as the value of config.method
MethodToLowerCase(method) ==
    CASE method = <<"G","E","T">> -> "get"
      [] method = <<"P","O","S","T">> -> "post"
      [] method = <<"P","U","T">> -> "put"
      [] method = <<"D","E","L","E","T","E">> -> "delete"
      [] method = <<"H","E","A","D">> -> "head"
      [] method = <<"O","P","T","I","O","N","S">> -> "options"
      [] method = <<"C","O","N","N","E","C","T">> -> "connect"
      [] method = <<"T","R","A","C","E">> -> "trace"
      [] method = <<"P","A","T","C","H">> -> "patch"

\* USE_DATA_METHODS.includes(method)
UseDataMethods == { <<"P","O","S","T">>, <<"P","U","T">>, <<"P","A","T","C","H">> }

\* apiPath.match(MATCH_METHOD) || ['GET ', 'GET']
MatchMethod(apiPath) ==
    LET found == {m \in MethodNames :
                     /\ StartsWith(apiPath, m)
                     /\ Run(Drop(apiPath, Len(m) + 1), {" "}) >= 1}
    IN  IF found = {}
        THEN [prefix |-> <<"G","E","T"," ">>, method |-> <<"G","E","T">>]
        ELSE LET m == CHOOSE x \in found : TRUE
             IN  [prefix |-> SubSeq(apiPath, 1,
                                    Len(m) + Run(Drop(apiPath, Len(m) + 1), {" "})),
                  method |-> m]

\* s.indexOf(pattern) + 1, 0 when the pattern does not occur
IndexOf(s, pattern) ==
    LET at == {i \in 1..(Len(s) - Len(pattern) + 1) :
                  SubSeq(s, i, i + Len(pattern) - 1) = pattern}
    IN  IF at = {} THEN 0 ELSE CHOOSE i \in at : \A j \in at : i <= j

\* s.replace(pattern, replacement) with a string pattern: the first
\* occurrence of the pattern is replaced.
Replace(s, pattern, replacement) ==
    IF IndexOf(s, pattern) = 0 THEN s
    ELSE SubSeq(s, 1, IndexOf(s, pattern) - 1) \o replacement
             \o Drop(s, IndexOf(s, pattern) + Len(pattern))

\* apiPath.match(MATCH_PATH_PARAMS): the matches of /:(\w+)/g, in order.
RECURSIVE MatchPathParams(_)
MatchPathParams(s) ==
    LET n == Run(Tail(s), Lower \cup Upper \cup Digit \cup {"_"})
    IN  IF s = <<>> THEN <<>>
        ELSE IF Head(s) = ":" /\ n >= 1
             THEN <<SubSeq(s, 1, n + 1)>> \o MatchPathParams(Drop(s, n + 2))
             ELSE MatchPathParams(Tail(s))

\* matchParams.forEach: a placeholder whose key the arguments have is
\* replaced in the url and its key deleted from the copy of the arguments.
RECURSIVE SubstituteParams(_, _, _)
SubstituteParams(matchParams, url, params) ==
    IF matchParams = <<>> THEN [url |-> url, params |-> params]
    ELSE LET match == Head(matchParams)
             key   == Tail(match)
         IN  IF key \in DOMAIN params
             THEN SubstituteParams(Tail(matchParams),
                                   Replace(url, match, params[key]),
                                   Delete(params, key))
             ELSE SubstituteParams(Tail(matchParams), url, params)

\* hostApi[apiName](params): the config it passes to client.request, with
\* ...apiOptions spread over url, method and the params or data.
Endpoint(apiConfig, params) ==
    LET matched == MatchMethod(apiConfig.path)
        done == SubstituteParams(MatchPathParams(apiConfig.path),
                                 Replace(apiConfig.path, matched.prefix, <<>>),
                                 params)
    IN  [url |-> done.url,
         method |-> IF apiConfig.object THEN apiConfig.method
                    ELSE MethodToLowerCase(matched.method),
         params |-> IF matched.method \in UseDataMethods THEN NoData ELSE done.params,
         data |-> IF matched.method \in UseDataMethods THEN done.params ELSE NoData]

\* SpecApi: every endpoint of three path templates, called with every
\* argument object of a small set.
Templates ==
    { <<"a","p","i","/","u","s","e","r","/",":","i","d">>,
      <<"/",":","a","b","/",":","a">>,
      <<"/","x">> }

\* An endpoint is declared as a string, 'path' or 'METHOD path', or as an
\* object {path, method}.
ApiConfigs ==
    {[object |-> FALSE, path |-> t, method |-> "-"] : t \in Templates}
        \cup {[object |-> FALSE, path |-> m \o <<" ">> \o t, method |-> "-"] :
                  m \in MethodNames, t \in Templates}
        \cup {[object |-> TRUE, path |-> t, method |-> m] :
                  t \in Templates, m \in {"GET", "POST", "PUT", "DELETE"}}

Arguments ==
    { NoHeaders,
      [k \in {<<"i","d">>} |-> <<"7">>],
      [k \in {<<"i","d">>, <<"q">>} |-> <<"7">>],
      [k \in {<<"a">>} |-> <<"7">>],
      [k \in {<<"a">>, <<"a","b">>} |-> IF k = <<"a">> THEN <<"7">> ELSE <<"8">>],
      [k \in {<<"q">>} |-> <<"x">>] }

ApplyEndpoint(apiConfig, params) ==
    /\ call' = [fn |-> "endpoint", args |-> <<apiConfig, params>>,
                out |-> Endpoint(apiConfig, params)]
    /\ UNCHANGED <<defaultOptions, handlers, issued, foreign, req, wire>>

NextApi ==
    \E apiConfig \in ApiConfigs, params \in Arguments : ApplyEndpoint(apiConfig, params)

SpecApi == InitUrl /\ [][NextApi]_vars

\* ------------------------------------------------------ createRequestClient
\* The most requestHandlers, and the most responseHandlers, of a client.
MaxHandlers == 2

\* createRequestClient(requestConfig): a new Client, every requestHandler
\* registered with use(requestHandler), every responseHandler with a
\* .then pair of its own, and the errorHandler pair registered last.
createRequestClient(requestHandlers, responseHandlers) ==
    [request  |-> [i \in 1..requestHandlers |-> "user"],
     response |-> <<ParseJSON>> \o [i \in 1..responseHandlers |-> "responseHandler"]
                      \o <<"errorHandler">>]

\* SpecClient: the client of createRequestClient, for every number of
\* handlers, and the calls its endpoint functions make.
InitClient ==
    /\ defaultOptions \in [baseURL : BaseURLs, responseType : ResponseTypes,
                           headers : {DefaultHeaders}]
    /\ \E requestHandlers \in 0..MaxHandlers, responseHandlers \in 0..MaxHandlers :
          handlers = createRequestClient(requestHandlers, responseHandlers)
    /\ issued = [c \in Chains |-> [i \in 1..Len(handlers[c]) |-> i - 1]]
    /\ foreign = [c \in Chains |-> FALSE]
    /\ req = [r \in Requests |-> IdleRequest]
    /\ Quiet

SpecClient == InitClient /\ [][Pipeline(URLs)]_vars

\* ------------------------------------------------------------------ claims
Nodes(r, c) == req[r].fold[c].nodes

\* Whether the call has built its fold over chain c.
Built(r, c) == IF c = "request" THEN req[r].pc # "idle" ELSE req[r].pc = "after"

\* The stage list the fold of chain c was built over.
Stages(r, c) ==
    IF c = "request" THEN Append(req[r].seen[c], BeforeSend) ELSE req[r].seen[c]

\* The stages of the fold are the non-empty slots of the stage list, each
\* once, in the order of the list.
FoldInOrder(r, c) ==
    /\ \A n \in 1..Len(Nodes(r, c)) :
          /\ Nodes(r, c)[n].pos \in 1..Len(Stages(r, c))
          /\ Nodes(r, c)[n].slot = Stages(r, c)[Nodes(r, c)[n].pos]
          /\ Nodes(r, c)[n].slot # Null
    /\ \A n, m \in 1..Len(Nodes(r, c)) :
          n < m => Nodes(r, c)[n].pos < Nodes(r, c)[m].pos
    /\ \A i \in 1..Len(Stages(r, c)) :
          Stages(r, c)[i] # Null => \E n \in 1..Len(Nodes(r, c)) : Nodes(r, c)[n].pos = i

Running(r) ==
    {<<c, n>> \in Chains \X (1..MaxSlots + 1) :
        n <= Len(Nodes(r, c)) /\ Nodes(r, c)[n].st = "run"}

\* C1: in every call of Client.request the non-ejected request interceptors
\* run one at a time in registration order, each starting only when the one
\* before it has settled; the built-in stage beforeSendRquestInterceptor runs
\* last of the request stages; the transport is opened and sent only after
\* that; the non-ejected response interceptors run in registration order and
\* none starts before the promise of the transport has settled.
C1PipelineOrder ==
    \A r \in Requests :
        /\ \A c \in Chains : Built(r, c) => FoldInOrder(r, c)
        /\ \A c \in Chains : \A n \in 1..Len(Nodes(r, c)) :
              Nodes(r, c)[n].st # "wait" =>
                  \A m \in 1..(n - 1) :
                      Nodes(r, c)[m].st = "done" /\ Settled(Nodes(r, c)[m].out)
        /\ Cardinality(Running(r)) <= 1
        /\ req[r].pc # "idle" =>
              LET last == Nodes(r, "request")[Len(Nodes(r, "request"))]
              IN  /\ last.slot = BeforeSend
                  /\ last.pos = Len(req[r].seen["request"]) + 1
                  /\ req[r].xhr.opens + req[r].xhr.sends > 0 =>
                        /\ req[r].pc = "after"
                        /\ \A n \in 1..Len(Nodes(r, "request")) :
                              Nodes(r, "request")[n].st = "done"
                        /\ last.mode = "F"
                        /\ last.out.st = "ful"
        /\ \A n \in 1..Len(Nodes(r, "response")) :
              Nodes(r, "response")[n].st # "wait" =>
                  /\ req[r].pc = "after"
                  /\ Settled(req[r].cell)
                  /\ \A m \in 1..Len(Nodes(r, "request")) :
                        Nodes(r, "request")[m].st = "done"

\* A call with a caller's request stage and a caller's response stage, the
\* transport opened and every stage run.
C1Witness ==
    \E r \in Requests :
        /\ req[r].xhr.opens = 1
        /\ Len(Nodes(r, "request")) = 2
        /\ Nodes(r, "request")[1].slot \in {"user", "userRej"}
        /\ Len(Nodes(r, "response")) = 2
        /\ Nodes(r, "response")[2].slot \in {"user", "userRej"}
        /\ Nodes(r, "response")[2].st = "done"
        /\ Nodes(r, "response")[2].mode = "F"

\* C2: once the transport has fired error, timeout or abort for a request,
\* the promise of Client._request is rejected with the matching error and is
\* never resolved with a Response, also when loadend fires for that call.
C2FailureRejects ==
    \A r \in Requests :
        (req[r].xhr.event \in Failures /\ req[r].xhr.phase >= 2) =>
            /\ req[r].cell.st # "ful"
            /\ Settled(req[r].cell) => req[r].cell = Rej(Failure(req[r].xhr.event))

\* C3: the promise of Client._request settles at most once: the first
\* transport callback that calls resolve or reject fixes the outcome, a later
\* one changes nothing, and the first response stage is given that outcome.
C3SettleOnce ==
    \A r \in Requests :
        req[r].pc = "after" =>
            /\ req[r].acted # <<>> => req[r].cell = req[r].acted[1]
            /\ (req[r].acted = <<>> /\ req[r].xhr.sends = 1) => req[r].cell = Pending
            /\ \A n \in 1..Len(Nodes(r, "response")) :
                  (Nodes(r, "response")[n].parent = 0
                      /\ Nodes(r, "response")[n].st # "wait"
                      /\ req[r].acted # <<>>) =>
                          /\ Nodes(r, "response")[n].arg = req[r].acted[1].v
                          /\ Nodes(r, "response")[n].mode = Callback(req[r].acted[1])

\* Two callbacks have called resolve and reject with different outcomes, and
\* the first response stage has run.
C3Witness ==
    \E r \in Requests :
        /\ Len(req[r].acted) = 2
        /\ req[r].acted[1] # req[r].acted[2]
        /\ Len(Nodes(r, "response")) >= 1
        /\ Nodes(r, "response")[1].st = "done"

ProtocolError == Error("Unsupported protocol", 0)

\* C4: when the promise of Client._request is rejected with a protocol,
\* network, timeout or abort error and every response interceptor of the
\* caller was registered with onFulfilled only, the promise Client.request
\* returned is rejected with that error.
C4ErrorSurfaces ==
    \A r \in Requests :
        (/\ req[r].pc = "after"
         /\ req[r].cell.st = "rej"
         /\ req[r].cell.v \in {ProtocolError} \cup {Failure(e) : e \in Failures}
         /\ \A i \in 1..Len(req[r].seen["response"]) :
               req[r].seen["response"][i] # "userRej"
         /\ Settled(Result(r))) =>
            Result(r) = req[r].cell

FtpURL == <<"f","t","p",":","/","/","x","/","y">>

\* C5: a request whose resolved URL has a scheme other than http, https,
\* file or blob has the promise of Client._request rejected with the protocol
\* error, with neither open nor send called on the transport; the url
\* ftp://x/y resolves to the scheme ftp with every baseURL; and with the
\* response chain of a new Client the promise of Client.request is rejected
\* with the same error.
C5UnsupportedProtocol ==
    \A r \in Requests :
        (req[r].pc = "after" /\ MergeConfig(r).t = "config") =>
            LET protocol == parseProtocol(FullPath(MergeConfig(r)))
            IN  /\ MergeConfig(r).url = FtpURL => protocol = <<"f","t","p">>
                /\ (protocol # <<>> /\ protocol \notin SupportedProtocols) =>
                      /\ req[r].cell = Rej(ProtocolError)
                      /\ req[r].xhr.opens = 0
                      /\ req[r].xhr.sends = 0
                      /\ req[r].acted = <<>>
                      /\ (req[r].seen["response"] = <<ParseJSON>> /\ Settled(Result(r))) =>
                            Result(r) = Rej(ProtocolError)

\* ftp://x/y requested of a Client with a baseURL, rejected and never opened.
C5Witness ==
    \E r \in Requests :
        /\ req[r].pc = "after"
        /\ MergeConfig(r).t = "config"
        /\ MergeConfig(r).url = FtpURL
        /\ MergeConfig(r).baseURL # <<>>
        /\ req[r].cell = Rej(ProtocolError)
        /\ req[r].xhr.opens = 0
        /\ Result(r) = Rej(ProtocolError)

\* C6: a call started after a slot of a chain was ejected runs the stages of
\* the slots that are left, in registration order, never the ejected one,
\* and each stage is given the output of the stage before it in that order;
\* in the request chain and in the response chain.
C6EjectedSkipped ==
    \A r \in Requests : \A c \in Chains :
        Built(r, c) =>
            /\ FoldInOrder(r, c)
            /\ \A n \in 1..Len(Nodes(r, c)) :
                  /\ Nodes(r, c)[n].parent = n - 1
                  /\ Nodes(r, c)[n].st # "wait" =>
                        /\ Settled(OutcomeOf(r, c, n - 1))
                        /\ Nodes(r, c)[n].arg = OutcomeOf(r, c, n - 1).v
                        /\ Nodes(r, c)[n].mode = Callback(OutcomeOf(r, c, n - 1))

\* Response chain A, B, C with B ejected before the call: C has run on the
\* object A returned.
C6Witness ==
    \E r \in Requests :
        /\ req[r].pc = "after"
        /\ Len(req[r].seen["response"]) = 3
        /\ req[r].seen["response"][1] # Null
        /\ req[r].seen["response"][2] = Null
        /\ req[r].seen["response"][3] # Null
        /\ Len(Nodes(r, "response")) = 2
        /\ Nodes(r, "response")[2].st = "done"
        /\ Nodes(r, "response")[2].pos = 3
        /\ Nodes(r, "response")[2].mode = "F"
        /\ Nodes(r, "response")[2].arg.t = "response"
        /\ Nodes(r, "response")[2].arg.by = 1

\* C7: a stage of a caller whose slot was ejected while the call was in
\* flight, before the fold reached the stage, is skipped: no stage starts
\* while its slot is null.
C7EjectedInFlightSkipped ==
    [][\A r \in Requests : \A c \in Chains : \A n \in 1..Len(Nodes(r, c)) :
          (/\ n <= Len(req'[r].fold[c].nodes)
           /\ ~BuiltIn(Nodes(r, c)[n].slot)
           /\ Nodes(r, c)[n].st = "wait"
           /\ req'[r].fold[c].nodes[n].st # "wait") =>
              handlers[c][Nodes(r, c)[n].pos] # Null]_vars

\* C8: a use on a chain whose fold a call has already built leaves the call
\* as it is: the stages of the call stay those of the slot list at the moment
\* the fold was built (request chain: when request was called; response
\* chain: when the transport was invoked), and a fold built later is built
\* over the list as it is then.
C8UseNotApplied ==
    /\ [](\A r \in Requests : \A c \in Chains :
             Built(r, c) =>
                 /\ FoldInOrder(r, c)
                 /\ Len(req[r].seen[c]) <= Len(handlers[c]))
    /\ [][/\ (\E c \in Chains : Len(handlers'[c]) > Len(handlers[c])) => req' = req
          /\ \A r \in Requests : \A c \in Chains :
                ((IF c = "request" THEN req'[r].pc # "idle" ELSE req'[r].pc = "after")
                    /\ (~Built(r, c) \/ req'[r].seen[c] # req[r].seen[c])) =>
                        req'[r].seen[c] = handlers[c]]_vars

\* A call whose promise has settled with every stage run, on a Client whose
\* response chain got another interceptor after the transport was invoked.
C8Witness ==
    \E r \in Requests :
        /\ req[r].pc = "after"
        /\ Len(handlers["response"]) > Len(req[r].seen["response"])
        /\ handlers["response"][Len(handlers["response"])] \in {"user", "userRej"}
        /\ Len(Nodes(r, "response")) >= 1
        /\ \A n \in 1..Len(Nodes(r, "response")) : Nodes(r, "response")[n].st = "done"
        /\ Settled(Result(r))

\* C9: each stage is called through exactly one of its two callbacks:
\* through onFulfilled with the value when the promise before it is
\* fulfilled, which is the case when the stage before returned a value from
\* its onRejected; through onRejected with the error when that promise is
\* rejected, which is the case when the stage before threw or rethrew.
C9RejectionRecovery ==
    \A r \in Requests : \A c \in Chains : \A n \in 1..Len(Nodes(r, c)) :
        LET node == Nodes(r, c)[n]
            before == OutcomeOf(r, c, node.parent)
        IN  /\ node.st = "wait" => node.mode = "-"
            /\ node.st # "wait" =>
                  /\ node.mode \in {"F", "R"}
                  /\ Settled(before)
                  /\ node.arg = before.v
                  /\ before.st = "ful" <=> node.mode = "F"
                  /\ before.st = "rej" <=> node.mode = "R"

\* A caller's onRejected returned a replacement and the next stage has run
\* through onFulfilled on that replacement.
C9Witness ==
    \E r \in Requests : \E c \in Chains : \E n \in 2..Len(Nodes(r, c)) :
        /\ Nodes(r, c)[n - 1].slot = "userRej"
        /\ Nodes(r, c)[n - 1].mode = "R"
        /\ Nodes(r, c)[n - 1].out.st = "ful"
        /\ Nodes(r, c)[n].st = "done"
        /\ Nodes(r, c)[n].mode = "F"
        /\ Nodes(r, c)[n].arg = Nodes(r, c)[n - 1].out.v
        /\ Nodes(r, c)[n].arg.by = Nodes(r, c)[n - 1].pos

C11OneInvocation ==
    \A r \in Requests :
        /\ req[r].xhr.opens <= 1
        /\ req[r].xhr.sends <= 1
        /\ req[r].xhr.opens = req[r].xhr.sends
        /\ req[r].pc # "after" => req[r].xhr.opens = 0
        /\ (/\ req[r].pc = "after"
            /\ MergeConfig(r).t = "config"
            /\ ~Unsupported(FullPath(MergeConfig(r)))) =>
               req[r].xhr.opens = 1 /\ req[r].xhr.sends = 1

\* A call whose transport failed, whose callbacks have all run and whose
\* promise has settled, with one open and one send.
C11Witness ==
    \E r \in Requests :
        /\ req[r].pc = "after"
        /\ req[r].xhr.event \in Failures
        /\ req[r].xhr.phase >= 2
        /\ req[r].timers = <<>>
        /\ Settled(Result(r))
        /\ req[r].xhr.opens = 1
        /\ req[r].xhr.sends = 1

\* C13: after a load with status 200 and a body that is JSON text, on a
\* Client constructed with responseType 'json' or with none, with no
\* interceptor of the caller, the Response Client.request resolves with has
\* the parsed value as data.
C13ParsedData ==
    \A r \in Requests :
        (/\ req[r].pc = "after"
         /\ req[r].seen["request"] = <<>>
         /\ req[r].seen["response"] = <<ParseJSON>>
         /\ req[r].xhr.event = "load"
         /\ req[r].xhr.status = 200
         /\ req[r].xhr.responseText = "json"
         /\ Settled(Result(r))) =>
            /\ Result(r).st = "ful"
            /\ Result(r).v.t = "response"
            /\ Result(r).v.data = "parsed"

\* C20: for every url that begins with scheme:// or with // and every base,
\* the empty base included, buildFullPath(base, url) is the url.
C20AbsoluteKept ==
    (call.fn = "buildFullPath" /\ call.args[2] \in AbsoluteURLs) =>
        call.out = call.args[2]

\* An upper-case scheme under a base that is not empty.
C20Witness ==
    /\ call.fn = "buildFullPath"
    /\ call.args[1] = <<"h","t","t","p",":","/","/","h","/">>
    /\ call.args[2] = <<"H","T","T","P",":","/","/","h","/","p">>
    /\ call.out = call.args[2]

\* The header names of a headers object that are content-type in any case.
ContentTypeKeys(headers) ==
    {k \in DOMAIN headers : ToLowerCase(k) = "content-type"}

\* C12: post(path, obj) with a plain object and no Content-Type from the
\* caller, on a Client with baseURL b: open is called with POST and the url
\* resolved from b and path, Content-Type: application/json is assigned to
\* the transport, and send is given the JSON text of obj.
C12PostJSON ==
    \A c \in DOMAIN wire :
        (/\ wire[c].pc = "sent"
         /\ wire[c].verb = "post"
         /\ wire[c].payload = NamedObject
         /\ wire[c].options = NoOptions
         /\ ContentTypeKeys(defaultOptions.headers) = {}) =>
            /\ wire[c].xhr.opens = 1
            /\ wire[c].xhr.sends = 1
            /\ wire[c].xhr.method = "POST"
            /\ wire[c].xhr.url =
                  (IF defaultOptions.baseURL = <<>> THEN <<"/","r">>
                   ELSE <<"h","t","t","p",":","/","/","h","/","r">>)
            /\ <<"Content-Type", "application/json">> \in wire[c].xhr.headers
            /\ \A h \in wire[c].xhr.headers :
                  ToLowerCase(h[1]) = "content-type" => h[2] = "application/json"
            /\ wire[c].xhr.body = String("{\"name\":\"a\"}")

\* post('/r', {name: 'a'}) sent by a Client with baseURL http://h and no
\* responseType.
C12Witness ==
    \E c \in DOMAIN wire :
        /\ wire[c].pc = "sent"
        /\ wire[c].verb = "post"
        /\ wire[c].payload = NamedObject
        /\ wire[c].options = NoOptions
        /\ defaultOptions.baseURL # <<>>
        /\ defaultOptions.responseType = "unset"
        /\ ContentTypeKeys(defaultOptions.headers) = {}
        /\ wire[c].xhr.body = String("{\"name\":\"a\"}")

\* C14: a call whose caller supplied no data has no header whose name is
\* content-type in any case assigned to the transport, and every other
\* header of the merged headers is assigned.
C14NoContentTypeWithoutBody ==
    \A c \in DOMAIN wire :
        (/\ wire[c].pc = "sent"
         /\ wire[c].passed.data = NoData
         /\ wire[c].xhr.opens = 1) =>
            /\ \A h \in wire[c].xhr.headers : ToLowerCase(h[1]) # "content-type"
            /\ \A k \in DOMAIN HeadersOf(c) :
                  ToLowerCase(k) # "content-type" =>
                      <<k, HeadersOf(c)[k]>> \in wire[c].xhr.headers

\* C15: a Content-Type the caller supplied, in the default headers or in the
\* headers of the call, is assigned to the transport with the value of the
\* caller, whatever the responseType.
C15CallerContentTypeKept ==
    \A c \in DOMAIN wire :
        (/\ wire[c].pc = "sent"
         /\ wire[c].xhr.opens = 1
         /\ wire[c].payload = NamedObject
         /\ UsesData(wire[c].verb)
         /\ ContentTypeKeys(Spread(defaultOptions.headers, wire[c].options.headers))
               = {"Content-Type"}) =>
            LET supplied == Spread(defaultOptions.headers,
                                   wire[c].options.headers)["Content-Type"]
            IN  /\ <<"Content-Type", supplied>> \in wire[c].xhr.headers
                /\ \A h \in wire[c].xhr.headers :
                      ToLowerCase(h[1]) = "content-type" => h[2] = supplied

\* C16: no step of a call changes the defaultOptions of the Client or its
\* default headers, or the options object of a caller or its headers; and the
\* config of a call that its own interceptor has not touched is the merge of
\* the defaults and of what the caller passed, whatever other calls did.
C16NoSharing ==
    /\ [](\A c \in DOMAIN wire :
             wire[c].pc # "idle" =>
                 /\ wire[c].callerHeaders = wire[c].options.headers
                 /\ wire[c].passed = Shortcut(wire[c].verb, wire[c].url,
                                              wire[c].payload, wire[c].options)
                 /\ (wire[c].pc = "merged" /\ ~wire[c].touched) =>
                       /\ wire[c].config.url = wire[c].url
                       /\ wire[c].config.data = wire[c].payload
                             \/ wire[c].config.params = wire[c].payload
                       /\ HeadersOf(c) =
                             [k \in DOMAIN DefaultHeaders \cup DOMAIN wire[c].options.headers |->
                                 IF k \in DOMAIN wire[c].options.headers
                                 THEN wire[c].options.headers[k]
                                 ELSE DefaultHeaders[k]])
    /\ [][defaultOptions' = defaultOptions]_vars

\* Two calls sent, the interceptor having set a header of the first and the
\* url of the second.
C16Witness ==
    /\ DOMAIN wire = {1, 2}
    /\ wire[1].pc = "sent"
    /\ wire[1].touched
    /\ <<"X-Id", "m">> \in wire[1].xhr.headers
    /\ wire[2].pc = "sent"
    /\ wire[2].touched
    /\ wire[2].config.url = <<"/","m">>
    /\ <<"X-Id", "m">> \notin wire[2].xhr.headers

\* C17: every verb shortcut passes request a config whose method is the
\* verb, with the url and the headers of the options as given, the second
\* argument as params for get, delete, head, options and as data for post,
\* put, patch, and nothing else.
C17VerbShortcuts ==
    \A c \in DOMAIN wire :
        wire[c].pc # "idle" =>
            /\ wire[c].passed.method = ToUpperCase(wire[c].verb)
            /\ wire[c].passed.url = wire[c].url
            /\ wire[c].passed.hasHeaders = wire[c].options.hasHeaders
            /\ wire[c].passed.headers = wire[c].options.headers
            /\ IF wire[c].verb \in {"get", "delete", "head", "options"}
               THEN wire[c].passed.params = wire[c].payload
                    /\ wire[c].passed.data = NoData
               ELSE wire[c].passed.data = wire[c].payload
                    /\ wire[c].passed.params = NoData

\* C18: an endpoint function, declared as a string or as an object, sends
\* the remaining arguments as data exactly when the method of the request it
\* issues is POST, PUT or PATCH, and as params otherwise.
C18BodyByMethod ==
    call.fn = "endpoint" =>
        IF ToUpperCase(call.out.method) \in {"POST", "PUT", "PATCH"}
        THEN call.out.data # NoData /\ call.out.params = NoData
        ELSE call.out.params # NoData /\ call.out.data = NoData

\* The url of a template with every placeholder whose name the arguments
\* have replaced by the value, at the place of the placeholder.
RECURSIVE Filled(_, _)
Filled(template, params) ==
    LET n == Run(Tail(template), Lower \cup Upper \cup Digit \cup {"_"})
        key == SubSeq(template, 2, n + 1)
    IN  IF template = <<>> THEN <<>>
        ELSE IF Head(template) = ":" /\ n >= 1
             THEN (IF key \in DOMAIN params THEN params[key] ELSE SubSeq(template, 1, n + 1))
                      \o Filled(Drop(template, n + 2), params)
             ELSE <<Head(template)>> \o Filled(Tail(template), params)

\* C19: in the url an endpoint requests, every placeholder of the path
\* template whose name is a key of the arguments is replaced by the value
\* and the other placeholders are left as they are; the params or data sent
\* are the arguments without the keys that were substituted.
C19PathParams ==
    call.fn = "endpoint" =>
        LET template == Replace(call.args[1].path,
                                MatchMethod(call.args[1].path).prefix, <<>>)
            names == {Tail(MatchPathParams(template)[i]) :
                         i \in 1..Len(MatchPathParams(template))}
            remaining == IF call.out.data # NoData THEN call.out.data ELSE call.out.params
        IN  /\ call.out.url = Filled(template, call.args[2])
            /\ remaining = [k \in DOMAIN call.args[2] \ names |-> call.args[2][k]]

RECURSIVE Pairs(_, _)
Pairs(entries, suffix) ==
    LET key   == Head(entries).key
        value == Head(entries).value
    IN  IF entries = <<>> THEN <<>>
        ELSE (IF value.t \in {"null", "undefined"} THEN <<>>
              ELSE IF value.t = "array"
              THEN [i \in 1..Len(value.items) |->
                       key \o suffix \o <<"=">> \o encode(value.items[i])]
              ELSE <<key \o <<"=">> \o encode(value.s)>>)
             \o Pairs(Tail(entries), suffix)

Queried(url, params, suffix) ==
    url \o (IF \E i \in 1..Len(url) : url[i] = "?" THEN <<"&">> ELSE <<"?">>)
        \o Join(Pairs(params.entries, suffix), <<"&">>)

\* C22 as stated: buildURL keeps the order of the keys, drops null and
\* undefined values, gives one pair per element of an array under the key
\* with the suffix %5B%5D, and joins with '?' or '&'; buildURL("/x",
\* {a: [1,2], b: null, c: "x"}) is /x?a%5B%5D=1&a%5B%5D=2&c=x.
C22QueryEscaped ==
    (call.fn = "buildURL" /\ call.args[2] # NoData) =>
        call.out = Queried(call.args[1], call.args[2], <<"%","5","B","%","5","D">>)

\* C22: buildURL keeps the order of the keys, drops null and undefined
\* values, gives one pair per element of an array under the key with the
\* suffix [], written as the two characters, and joins with '?' or '&';
\* buildURL("/x", {a: [1,2], b: null, c: "x"}) is /x?a[]=1&a[]=2&c=x.
C22Query ==
    (call.fn = "buildURL" /\ call.args[2] # NoData) =>
        /\ call.out = Queried(call.args[1], call.args[2], <<"[","]">>)
        /\ (/\ call.args[1] = <<"/","x">>
            /\ Len(call.args[2].entries) = 3
            /\ call.args[2].entries[2].value.t = "null") =>
               call.out = <<"/","x","?","a","[","]","=","1","&",
                            "a","[","]","=","2","&","c","=","x">>

\* The example of the claim has been built.
C22Witness ==
    /\ call.fn = "buildURL"
    /\ call.args[1] = <<"/","x">>
    /\ call.args[2] # NoData
    /\ Len(call.args[2].entries) = 3
    /\ call.args[2].entries[2].value.t = "null"
    /\ call.out = <<"/","x","?","a","[","]","=","1","&","a","[","]","=","2","&","c","=","x">>

\* The values of the lines of a header text whose key is k, in their order.
Occurrences(headers, k) ==
    LET lines == HeaderLines(headers)
        vals[n \in 0..Len(lines)] ==
            IF n = 0 THEN <<>>
            ELSE IF lines[n].key = k THEN Append(vals[n - 1], lines[n].val)
            ELSE vals[n - 1]
    IN  vals[Len(lines)]

\* C23: parseHeaders gives, under the lower-cased key, for set-cookie the
\* list of the values of all its lines in their order, for a header of
\* ignoreDuplicateOf the value of its first line, and for any other header
\* the values of its lines joined by ', ' in their order.
C23ParsedHeaders ==
    call.fn = "parseHeaders" =>
        LET lines == HeaderLines(call.args[1])
            keys  == {lines[n].key : n \in 1..Len(lines)} \ {<<>>}
        IN  /\ DOMAIN call.out = keys
            /\ \A k \in keys :
                  call.out[k] =
                      IF k = <<"s","e","t","-","c","o","o","k","i","e">>
                      THEN [t |-> "list", items |-> Occurrences(call.args[1], k)]
                      ELSE IF k \in ignoreDuplicateOf
                      THEN [t |-> "string", s |-> Occurrences(call.args[1], k)[1]]
                      ELSE [t |-> "string",
                            s |-> Join(Occurrences(call.args[1], k), <<",", " ">>)]

\* The headers declare a JSON content type, under a key of any case.
DeclaresJSON(headers) ==
    \E k \in DOMAIN headers :
        /\ ToLowerCase(k) = "content-type"
        /\ headers[k] \in {"application/json", "application/json;charset=utf-8"}

\* The strings of the model that are JSON texts, some with white space around.
JSONTexts == {String("{\"name\":\"a\"}"), String(" {} "), String("\"x\"")}

\* C24 as stated: transformRequest returns a string that is a JSON text
\* trimmed, and transformRequest of what it returned returns it unchanged.
C24TrimmedOnce ==
    (call.fn = "transformRequest" /\ call.args[1] \in JSONTexts) =>
        /\ call.out.data = String(trim(call.args[1].text))
        /\ call.again.data = call.out.data

\* C24: transformRequest returns a string that is a JSON text trimmed when the
\* headers declare the content type application/json and unchanged when they
\* do not, never in quotes, and transformRequest of what it returned returns
\* it unchanged.
C24NoDoubleEncoding ==
    (call.fn = "transformRequest" /\ call.args[1] \in JSONTexts) =>
        /\ call.out.data = IF DeclaresJSON(call.args[2])
                           THEN String(trim(call.args[1].text))
                           ELSE call.args[1]
        /\ call.out.data # String("\"" \o call.args[1].text \o "\"")
        /\ call.again.data = call.out.data

\* A JSON text with white space around under a JSON content type.
C24Witness ==
    /\ call.fn = "transformRequest"
    /\ call.args[1] = String(" {} ")
    /\ DeclaresJSON(call.args[2])
    /\ call.out.data = String("{}")
    /\ call.again.data = String("{}")

\* C26: transformRequest decides by the first match in the order
\* pass-through shape (empty, form data, array buffer, buffer, stream, file,
\* blob), binary view, URL-encoded params, JSON (plain object or declared
\* content type application/json), else unchanged: a payload of a
\* pass-through shape is returned as it is and a binary view as its buffer,
\* also under headers that declare application/json, and neither is given a
\* content type.
C26DecisionOrder ==
    call.fn = "transformRequest" =>
        LET data == call.args[1]
            out  == call.out
            kept == \A k \in DOMAIN call.args[2] :
                        \E x \in DOMAIN out.headers :
                            ToLowerCase(x) = ToLowerCase(k)
                                /\ out.headers[x] = call.args[2][k]
            same == kept /\ ContentTypeKeys(out.headers) # {} =>
                                ContentTypeKeys(call.args[2]) # {}
        IN  CASE data.k \in {"undefined", "formdata", "arraybuffer", "buffer",
                             "stream", "file", "blob"} \/ data = String("") ->
                     out.data = data /\ same
              [] data.k = "arraybufferview" ->
                     out.data = data.buffer /\ same
              [] data.k = "urlsearchparams" ->
                     /\ out.data = String(data.text)
                     /\ kept
                     /\ "Content-Type" \in DOMAIN out.headers
                     /\ ContentTypeKeys(call.args[2]) = {} =>
                            out.headers["Content-Type"] =
                                "application/x-www-form-urlencoded;charset=utf-8"
              [] data.k = "object" ->
                     /\ out.data = String(data.json)
                     /\ kept
                     /\ "Content-Type" \in DOMAIN out.headers
              [] data.k = "string" /\ data # String("") /\ DeclaresJSON(call.args[2]) ->
                     /\ out.data = IF ParsesAsJSON(data.text)
                                   THEN String(trim(data.text))
                                   ELSE String("\"" \o data.text \o "\"")
                     /\ same
              [] OTHER -> out.data = data /\ same

\* A FormData under headers that declare application/json is returned as it is.
C26Witness ==
    /\ call.fn = "transformRequest"
    /\ call.args[1] = FormData
    /\ DeclaresJSON(call.args[2])
    /\ call.out.data = FormData

\* C25: when the caller gives no data, the built-in request stage leaves the
\* body absent, so that send is given no body, and adds no Content-Type: the
\* request carries one only if the default headers or the headers of the
\* call hold one.
C25NoBodyWithoutData ==
    \A c \in DOMAIN wire :
        (/\ wire[c].pc = "sent"
         /\ wire[c].passed.data = NoData
         /\ wire[c].xhr.opens = 1) =>
            /\ wire[c].xhr.body = NoData
            /\ (\E h \in wire[c].xhr.headers : ToLowerCase(h[1]) = "content-type") =>
                   ContentTypeKeys(Spread(defaultOptions.headers,
                                          wire[c].callerHeaders)) # {}

\* C27: when every stage that started settles and the transport ends the
\* transfer, every call of request settles: the promise it returned is
\* fulfilled or rejected, also when a response interceptor throws or the
\* body does not parse.
C27EverySettles ==
    \A r \in Requests : (req[r].pc = "before") ~> Settled(Result(r))

\* A call has settled by a rejection that a response stage made.
C27Witness ==
    \E r \in Requests :
        /\ req[r].pc = "after"
        /\ req[r].cell.st = "ful"
        /\ Result(r).st = "rej"

\* C28: when a request interceptor throws and no later request interceptor
\* has an onRejected that recovers, the transport is neither opened nor sent
\* and the promise request returned rejects with the error of the
\* interceptor (stated for calls without response interceptors of the caller).
C28RequestErrorRejects ==
    \A r \in Requests :
        \A n \in 1..Len(Nodes(r, "request")) :
            (/\ Settled(Result(r))
             /\ Nodes(r, "request")[n].slot \in {"user", "userRej"}
             /\ Nodes(r, "request")[n].mode = "F"
             /\ Nodes(r, "request")[n].out.st = "rej"
             /\ \A m \in (n + 1)..Len(Nodes(r, "request")) :
                   Nodes(r, "request")[m].slot = "userRej" =>
                       Nodes(r, "request")[m].out.st = "rej"
             /\ \A i \in 1..Len(req[r].seen["response"]) :
                   req[r].seen["response"][i] \in {ParseJSON, Null}) =>
                /\ req[r].xhr.opens = 0
                /\ req[r].xhr.sends = 0
                /\ Result(r) = Nodes(r, "request")[n].out

\* Every stage of a fold is chained on the stage before it, the first on the
\* promise the fold starts from: a skipped slot leaves the promise folded so
\* far as it is.
Continues(fold) ==
    /\ \A n \in 1..Len(fold.nodes) : fold.nodes[n].parent = n - 1
    /\ fold.last = Len(fold.nodes)

\* C30: in the afterRequest of client.ts and in the one of the draft in
\* src/unnamed/part_000, a stage that follows an ejected slot is chained on
\* the promise folded so far, not on the promise of the transport.
C30BothFoldsContinue ==
    call.fn = "afterRequest" => Continues(call.out) /\ Continues(call.draft)

\* C29: on a platform without onloadend, the promise of the transport is
\* resolved with a Response only when readyState is 4 and the status is not
\* 0 or the url is a file: url, and by a setTimeout callback that handleLoad
\* scheduled in an earlier step, never in the step of the readystatechange.
C29ReadyState ==
    /\ [](\A r \in Requests :
            (/\ ~req[r].xhr.hasLoadEnd
             /\ \E i \in 1..Len(req[r].acted) : req[r].acted[i].st = "ful") =>
                /\ req[r].xhr.readyState = 4
                /\ req[r].xhr.status # 0 \/ IsFileURL(FullPath(MergeConfig(r))))
    /\ [][\A r \in Requests :
            (/\ ~req'[r].xhr.hasLoadEnd
             /\ Len(req'[r].acted) > Len(req[r].acted)
             /\ req'[r].acted[Len(req'[r].acted)].st = "ful") =>
                /\ req[r].timers # <<>>
                /\ Head(req[r].timers) = "onloadend"
                /\ req'[r].xhr = req[r].xhr]_vars

\* A file: url loaded with status 0 has resolved without onloadend.
C29Witness ==
    \E r \in Requests :
        /\ ~req[r].xhr.hasLoadEnd
        /\ req[r].xhr.readyState = 4
        /\ req[r].xhr.status = 0
        /\ IsFileURL(FullPath(MergeConfig(r)))
        /\ req[r].cell.st = "ful"

C32NothingToAppend ==
    (/\ call.fn = "buildURL"
     /\ call.args[2] # NoData
     /\ call.args[2].k = "entries"
     /\ \A i \in 1..Len(call.args[2].entries) :
            call.args[2].entries[i].value.t \in {"null", "undefined"}) =>
        call.out = call.args[1]

\* The request of call r failed: the transport rejected (an error, a
\* timeout, an abort, a status that is an error), a requestHandler threw,
\* or a responseHandler threw.
Failed(r) ==
    \/ req[r].cell.st = "rej"
    \/ \E n \in 1..Len(Nodes(r, "request")) :
          /\ Nodes(r, "request")[n].slot = "user"
          /\ Nodes(r, "request")[n].mode = "F"
          /\ Nodes(r, "request")[n].out.st = "rej"
    \/ \E n \in 1..Len(Nodes(r, "response")) :
          /\ Nodes(r, "response")[n].slot = "responseHandler"
          /\ Nodes(r, "response")[n].mode = "F"
          /\ Nodes(r, "response")[n].out.st = "rej"

\* How many times the call has invoked errorHandler.
ErrorHandlerCalls(r) ==
    Cardinality({n \in 1..Len(Nodes(r, "response")) :
                    /\ Nodes(r, "response")[n].slot = "errorHandler"
                    /\ Nodes(r, "response")[n].mode = "R"})

\* C31: in a client of createRequestClient, a call whose request failed
\* rejects and has invoked errorHandler exactly once, after every
\* responseHandler stage; a call that resolves has not invoked errorHandler.
C31ErrorHandlerOnce ==
    \A r \in Requests :
        Settled(Result(r)) =>
            /\ Failed(r) =>
                  /\ Result(r).st = "rej"
                  /\ ErrorHandlerCalls(r) = 1
                  /\ \A n \in 1..Len(Nodes(r, "response")) :
                        Nodes(r, "response")[n].slot = "responseHandler" =>
                            Nodes(r, "response")[n].st = "done"
            /\ Result(r).st = "ful" => ErrorHandlerCalls(r) = 0

====
